---- MODULE Spec2Model ----
(***************************************************************************)
(* A model of the CAN protocol and node-coordination layer of              *)
(* lectec-inc/RaspberryPi-CAN.                                             *)
(*                                                                         *)
(*   Part I   core/vesc_interface.py, core/commands.py, core/protocol.py:  *)
(*            the pending-command tracker (caller thread, receive thread,  *)
(*            cleanup thread, command_lock).                 SpecIface     *)
(*   Part II  vesc_can/node_manager.py, vesc_can/can_service.py:           *)
(*            node id assignment and conflict resolution.   SpecNode       *)
(*   Part III vesc_can/can_interface.py: the CAN transport (user           *)
(*            thread, receive worker, send worker, the two bounded         *)
(*            queues, error counting and reconnecting).      SpecCan       *)
(*   Part IV  vesc_can/can_service.py, vesc_can/protocol.py,               *)
(*            student_api.py: the status cache and history, ping and       *)
(*            heartbeat handling, and freshness.             SpecService   *)
(*   Part V   vesc_can/can_service.py: forwarding a UART request and       *)
(*            waiting for its answer.                        SpecUart      *)
(*   Part VI  core/commands.py, core/protocol.py, vesc_can/protocol.py:    *)
(*            the frame and packet codecs.        SpecCodec, SpecDecode    *)
(*   Part VII student_api.py: the brake ramp of set_brake_current.         *)
(*                                                           SpecApi       *)
(*   Part VIII vesc_can/node_manager.py: _assign_node_id on managers with  *)
(*            given sets of active nodes.                    SpecAssign    *)
(*   The CRC16 and the UART packet builder of vesc_can/protocol.py stand   *)
(*   before Part V, which shares them with Part VI.                        *)
(*                                                                         *)
(* Conventions.  Time is counted in ticks of the cleanup thread's sleep    *)
(* (0.1 s).  A command value is an integer number of thousandths           *)
(* (v stands for v/1000), so the encoders' scalings are exact.  A decoded  *)
(* telemetry field is the pair [raw, div] of the wire integer and the      *)
(* divisor the source divides it by.                                       *)
(***************************************************************************)
EXTENDS Integers, Sequences, FiniteSets, TLC

(***************************************************************************)
(* Bounds of the model.                                                    *)
(***************************************************************************)
MaxCmds == 2        \* command ids (uuid4 values) handed out by send_command
MaxTime == 4        \* the clock stops advancing here
MaxTimeout == 1     \* send_command's timeout argument ranges over 1..MaxTimeout
MaxRx == 1          \* frames the receive thread takes from the bus
MaxNodeTime == 5   \* the node manager's clock runs from 0 to MaxNodeTime
MaxNodeOps == 4    \* calls made on the node managers
MaxCanOps == 4     \* calls made on the CAN transport by its user
MaxFrames == 3     \* frames that arrive from the bus
MaxSends == 3      \* send_message calls
MaxOpenFailures == 3        \* times can.interface.Bus() raises
RECEIVE_QUEUE_MAXSIZE == 2  \* queue.Queue(maxsize=1000) of receive_queue, scaled down
SEND_QUEUE_MAXSIZE == 2     \* queue.Queue(maxsize=100) of send_queue, scaled down
max_consecutive_errors == 2 \* self.max_consecutive_errors = 10, scaled down
MaxSvcOps == 3     \* frames handled by and calls made on the service
MaxSvcTime == 3    \* the service's clock runs from 0 to MaxSvcTime
CAN_STATUS_MSGS_TO_STORE == 2   \* 10 in vesc_can/datatypes.py, scaled down
MaxUartOps == 2    \* send_uart_request calls and frames received meanwhile
MaxUartTimeout == 2 \* send_uart_request's timeout ranges over 1..MaxUartTimeout
MaxDecodeTime == 2 \* the clock read by the decoders runs from 0 to MaxDecodeTime
MaxApiCalls == 2   \* set_brake_current calls made by the caller

(***************************************************************************)
(* Program constants.                                                      *)
(***************************************************************************)
MAX_RETRIES == 1            \* PendingCommand.max_retries
SWEEP_TICKS == 1            \* time.sleep(0.1) of _cleanup_loop, in ticks
TELEMETRY_QUEUE_MAX == 1000 \* Queue(maxsize=1000)
CAN_PACKET_SET_DUTY == 0
CAN_PACKET_SET_CURRENT == 1
CAN_PACKET_SET_CURRENT_BRAKE == 2
CAN_PACKET_STATUS == 9
CAN_PACKET_STATUS_2 == 14
CAN_PACKET_STATUS_3 == 15
CAN_PACKET_STATUS_4 == 16
CAN_PACKET_STATUS_5 == 27
CAN_PACKET_STATUS_6 == 58
NODE_ID_MIN == 64
NODE_ID_MAX == 127
ACTIVE_WINDOW_TICKS == 2   \* 300 s, in node-manager ticks of 150 s
CLEANUP_AGE_TICKS == 4     \* 600 s
FILL_RX_BUFFER == 5
FILL_RX_BUFFER_LONG == 6
PROCESS_RX_BUFFER == 7
PING == 17
PONG == 18
PROCESS_SHORT_BUFFER == 8
status_cache_timeout == 2  \* 2.0 s, in service ticks of 1.0 s
heartbeat_interval == 5    \* 5.0 s
discovery_interval == 60   \* 60.0 s
CONNECTED_WINDOW == 2      \* the 2.0 s of VESCController.is_connected

VARIABLES
    \* ---- VESCInterface ----
    bus,              \* self.bus: "none" | "open"
    running,          \* self.running
    lock,             \* owner of self.command_lock: "none" | "caller" | "rx" | "cleanup"
    pending,          \* self.pending_commands, in insertion order
    stats,            \* self.stats
    live_data,        \* self.live_data: controller -> [status: type -> data, last_update]
    telemetry_queue,  \* self.telemetry_queue
    now,              \* time.time(), in ticks
    rxPc,             \* receive thread: "off" | "loop" | "check" | "blocked" | "done"
    rxMsg,            \* the frame _process_message is working on
    kPc,              \* cleanup thread: "off" | "sleep" | "lock" | "handle" | "done"
    kTime,            \* current_time of the sweep in progress
    kExpired,         \* expired_commands still to be handled
    kWake,            \* when the sleep of the cleanup loop ends
    callerPc,         \* caller: "idle" | "reg_lock" | "send" | "exc_lock" | "join"
    callFrame,        \* can_id, data and command_type of the send_command call in progress
    nextId,           \* next command id to hand out
    \* ---- observations of the caller and of the bus ----
    cur,              \* command id of the current / last send_command call
    calls,            \* per command id: the call's arguments and its outcome
    cbLog,            \* per command id: completion callback invocations
    busCalls,         \* per command id: invocations of bus.send with its frame
    atDisconnect,     \* command ids that were pending at a call of disconnect()
    disconnected,     \* disconnect() has returned and connect() not called since
    \* ---- VESCNodeManager, one per host ----
    mgr,              \* per manager: the object's fields and its two files
    nodeNow,          \* time.time() of the node managers, in ticks of 150 s
    nodeOps,          \* number of calls made on the managers
    lastOp,           \* the last call made on a manager and what it saw
    \* ---- VESCCANInterface ----
    can,              \* the fields of the transport and the position of its workers
    canObs,           \* what the transport's calls and workers were seen to do
    \* ---- VESCCANService ----
    svc,              \* the status cache, the status history, the counters, the frames sent
    svcNow,           \* time.time() of the service, in ticks of 1.0 s
    svcObs,           \* the last call on the service and what was there before it
    \* ---- the frame codecs and the student API ----
    codec,            \* the last call made on a codec: its arguments and what it returned
    api               \* a VESCController call in progress and the commands it has issued

ifaceVars == <<bus, running, lock, pending, stats, live_data, telemetry_queue,
               now, rxPc, rxMsg, kPc, kTime, kExpired, kWake, callerPc,
               callFrame, nextId, cur, calls, cbLog, busCalls, atDisconnect,
               disconnected>>

nodeVars == <<mgr, nodeNow, nodeOps, lastOp>>

canVars == <<can, canObs>>

svcVars == <<svc, svcNow, svcObs>>

libVars == <<codec, api>>

farVars == <<canVars, svcVars, libVars>>

vars == <<ifaceVars, nodeVars, farVars>>

CmdIds == 1..MaxCmds
Timeouts == 1..MaxTimeout
Controllers == {74, 75}
\* Arguments of send_command: <<controller_id, command_type, value in
\* thousandths>>.  One well-formed command per controller, and one call for
\* each way of being rejected.
CommandInputs == { <<74, "duty", 500>>, <<75, "duty", 500>>,
                   <<300, "duty", 500>>, <<74, "duty", -1500>>, <<74, "duty", 1500>>,
                   <<74, "current", 150000>>, <<74, "brake", -1000>>,
                   <<74, "imu", 0>> }

(***************************************************************************)
(* core/commands.py                                                        *)
(***************************************************************************)
\* struct.pack('>i', x)
\* (two's complement: \div rounds down and % is never negative)
PackInt32(x) ==
    << (x \div 16777216) % 256, (x \div 65536) % 256, (x \div 256) % 256, x % 256 >>

EncodeError == [ok |-> FALSE, can_id |-> 0, data |-> << >>]

encode_set_duty_cycle(controller_id, duty_cycle) ==
    IF ~(0 <= controller_id /\ controller_id <= 255) THEN EncodeError
    ELSE IF ~(-1000 <= duty_cycle /\ duty_cycle <= 1000) THEN EncodeError
    ELSE [ok |-> TRUE,
          can_id |-> controller_id + CAN_PACKET_SET_DUTY * 256,
          data |-> PackInt32(duty_cycle * 100)]

encode_set_current(controller_id, current) ==
    IF ~(0 <= controller_id /\ controller_id <= 255) THEN EncodeError
    ELSE IF ~(-100000 <= current /\ current <= 100000) THEN EncodeError
    ELSE [ok |-> TRUE,
          can_id |-> controller_id + CAN_PACKET_SET_CURRENT * 256,
          data |-> PackInt32(current)]

encode_set_current_brake(controller_id, current) ==
    IF ~(0 <= controller_id /\ controller_id <= 255) THEN EncodeError
    ELSE IF ~(0 <= current /\ current <= 100000) THEN EncodeError
    ELSE [ok |-> TRUE,
          can_id |-> controller_id + CAN_PACKET_SET_CURRENT_BRAKE * 256,
          data |-> PackInt32(current)]

\* A dispatch whose duty-cycle encoder does not check the range of the value.
EncodeNoDutyCheck(controller_id, command_type, value) ==
    IF command_type = "duty" /\ 0 <= controller_id /\ controller_id <= 255
    THEN [ok |-> TRUE,
          can_id |-> controller_id + CAN_PACKET_SET_DUTY * 256,
          data |-> PackInt32(value * 100)]
    ELSE IF command_type = "current" THEN encode_set_current(controller_id, value)
    ELSE IF command_type = "brake" THEN encode_set_current_brake(controller_id, value)
    ELSE EncodeError

\* The encoder dispatch of send_command (lines 248-256).
EncodeCommand(controller_id, command_type, value) ==
    IF command_type = "duty" THEN encode_set_duty_cycle(controller_id, value)
    ELSE IF command_type = "current" THEN encode_set_current(controller_id, value)
    ELSE IF command_type = "brake" THEN encode_set_current_brake(controller_id, value)
    ELSE EncodeError

(***************************************************************************)
(* core/protocol.py                                                        *)
(***************************************************************************)
\* self.controller_id_mask = 0xFF
controller_id_mask == 255

\* An extraction that keeps seven bits of the node id.
ExtractSevenBits(can_id) == can_id % 128

extract_controller_id(can_id) == can_id % (controller_id_mask + 1)

extract_packet_type(can_id) == (can_id \div 256) % 256

\* struct.unpack('>i', b)[0] and struct.unpack('>h', b)[0]
UnpackInt32(b) ==
    LET hi == IF b[1] >= 128 THEN b[1] - 256 ELSE b[1]
    IN  hi * 16777216 + b[2] * 65536 + b[3] * 256 + b[4]

UnpackInt16(b) ==
    LET u == b[1] * 256 + b[2]
    IN  IF u >= 32768 THEN u - 65536 ELSE u

Fixed(raw, div) == [raw |-> raw, div |-> div]

parse_status_1(data) ==
    [rpm |-> UnpackInt32(SubSeq(data, 1, 4)),
     current |-> Fixed(UnpackInt16(SubSeq(data, 5, 6)), 10),
     duty_cycle |-> Fixed(UnpackInt16(SubSeq(data, 7, 8)), 1000)]

parse_status_2(data) ==
    [amp_hours |-> Fixed(UnpackInt32(SubSeq(data, 1, 4)), 10000),
     amp_hours_charged |-> Fixed(UnpackInt32(SubSeq(data, 5, 8)), 10000)]

parse_status_3(data) ==
    [watt_hours |-> Fixed(UnpackInt32(SubSeq(data, 1, 4)), 10000),
     watt_hours_charged |-> Fixed(UnpackInt32(SubSeq(data, 5, 8)), 10000)]

parse_status_4(data) ==
    [temp_fet |-> Fixed(UnpackInt16(SubSeq(data, 1, 2)), 10),
     temp_motor |-> Fixed(UnpackInt16(SubSeq(data, 3, 4)), 10),
     current_in |-> Fixed(UnpackInt16(SubSeq(data, 5, 6)), 10),
     pid_pos_now |-> Fixed(UnpackInt16(SubSeq(data, 7, 8)), 50)]

parse_status_5(data) ==
    [tacho_value |-> UnpackInt32(SubSeq(data, 1, 4)),
     v_in |-> Fixed(UnpackInt16(SubSeq(data, 5, 6)), 10)]

parse_status_6(data) ==
    [adc_1 |-> Fixed(UnpackInt16(SubSeq(data, 1, 2)), 1000),
     adc_2 |-> Fixed(UnpackInt16(SubSeq(data, 3, 4)), 1000),
     adc_3 |-> Fixed(UnpackInt16(SubSeq(data, 5, 6)), 1000),
     ppm |-> Fixed(UnpackInt16(SubSeq(data, 7, 8)), 1000)]

NoneParsed == [none |-> TRUE]

Parsed(controller_id, type, status) ==
    [none |-> FALSE, controller_id |-> controller_id, type |-> type, data |-> status]

\* None for an unknown packet type and for a payload that is too short
\* (the ValueError of parse_status_k is caught and None returned).
parse_message(can_id, data) ==
    LET controller_id == extract_controller_id(can_id)
        packet_type == extract_packet_type(can_id)
    IN  IF packet_type = CAN_PACKET_STATUS
        THEN IF Len(data) < 8 THEN NoneParsed
             ELSE Parsed(controller_id, "status_1", parse_status_1(data))
        ELSE IF packet_type = CAN_PACKET_STATUS_2
        THEN IF Len(data) < 8 THEN NoneParsed
             ELSE Parsed(controller_id, "status_2", parse_status_2(data))
        ELSE IF packet_type = CAN_PACKET_STATUS_3
        THEN IF Len(data) < 8 THEN NoneParsed
             ELSE Parsed(controller_id, "status_3", parse_status_3(data))
        ELSE IF packet_type = CAN_PACKET_STATUS_4
        THEN IF Len(data) < 8 THEN NoneParsed
             ELSE Parsed(controller_id, "status_4", parse_status_4(data))
        ELSE IF packet_type = CAN_PACKET_STATUS_5
        THEN IF Len(data) < 6 THEN NoneParsed
             ELSE Parsed(controller_id, "status_5", parse_status_5(data))
        ELSE IF packet_type = CAN_PACKET_STATUS_6
        THEN IF Len(data) < 8 THEN NoneParsed
             ELSE Parsed(controller_id, "status_6", parse_status_6(data))
        ELSE NoneParsed

(***************************************************************************)
(* core/vesc_interface.py: the pending-command tracker                     *)
(***************************************************************************)
PendingCommand(cmd_id, t, controller_id, command_type, callback, timeout) ==
    [command_id |-> cmd_id, timestamp |-> t, controller_id |-> controller_id,
     command_type |-> command_type, callback |-> callback, timeout |-> timeout,
     retry_count |-> 0, max_retries |-> MAX_RETRIES]

PendingIds(p) == { p[i].command_id : i \in DOMAIN p }

PendingIndex(p, cmd_id) ==
    IF cmd_id \in PendingIds(p)
    THEN CHOOSE i \in DOMAIN p : p[i].command_id = cmd_id
    ELSE 0

\* dict.pop(cmd_id, None)
PendingPop(p, cmd_id) == SelectSeq(p, LAMBDA e : e.command_id # cmd_id)

\* A lock that its holder can take again (threading.RLock).
CanAcquireReentrant(owner, thread) == owner \in {"none", thread}

\* threading.Lock(): not reentrant, acquire blocks while anyone holds it.
CanAcquire(owner, thread) == owner = "none"

\* The loop of _check_command_response: the first pending entry, in
\* insertion order, whose controller_id is the frame's; 0 when there is none.
FirstPendingFor(p, controller_id) ==
    LET hits == { i \in DOMAIN p : p[i].controller_id = controller_id }
    IN  IF hits = {} THEN 0
        ELSE CHOOSE i \in hits : \A j \in hits : i <= j

\* The scan of _cleanup_loop (lines 123-126), in dict order.
ExpiredCommands(p, current_time) ==
    LET exp == SelectSeq(p, LAMBDA e : current_time - e.timestamp > e.timeout)
    IN  [i \in DOMAIN exp |-> exp[i].command_id]

\* The body of _handle_command_response under the lock: what becomes of
\* pending_commands, whether the entry was resolved and whether its callback
\* is invoked with True.
HandleCommandResponse(p, cmd_id) ==
    IF cmd_id \in PendingIds(p)
    THEN [pending |-> PendingPop(p, cmd_id), resolved |-> TRUE,
          callback |-> p[PendingIndex(p, cmd_id)].callback]
    ELSE [pending |-> p, resolved |-> FALSE, callback |-> FALSE]

\* A timeout handler that invokes the callback on a retry as well.
HandleCommandTimeoutCallbackOnRetry(p, cmd_id, t) ==
    IF cmd_id \notin PendingIds(p)
    THEN [pending |-> p, timed_out |-> FALSE, callback |-> FALSE]
    ELSE LET i == PendingIndex(p, cmd_id)
         IN  IF p[i].retry_count < p[i].max_retries
             THEN [pending |-> [p EXCEPT ![i].retry_count = @ + 1,
                                         ![i].timestamp = t],
                   timed_out |-> FALSE, callback |-> p[i].callback]
             ELSE [pending |-> PendingPop(p, cmd_id), timed_out |-> TRUE,
                   callback |-> p[i].callback]

\* The body of _handle_command_timeout under the lock: a retry restarts the
\* entry's clock (nothing is sent again); after max_retries the entry is
\* removed and the callback invoked with False.
HandleCommandTimeout(p, cmd_id, t) ==
    IF cmd_id \notin PendingIds(p)
    THEN [pending |-> p, timed_out |-> FALSE, callback |-> FALSE]
    ELSE LET i == PendingIndex(p, cmd_id)
         IN  IF p[i].retry_count < p[i].max_retries
             THEN [pending |-> [p EXCEPT ![i].retry_count = @ + 1,
                                         ![i].timestamp = t],
                   timed_out |-> FALSE, callback |-> FALSE]
             ELSE [pending |-> PendingPop(p, cmd_id), timed_out |-> TRUE,
                   callback |-> p[i].callback]

\* Lines 266-275: the entry is registered only if a response is expected.
RegisterPending(p, expect_response, entry) ==
    IF expect_response THEN Append(p, entry) ELSE p

\* A send_command that never invokes the callback itself.
ImmediateCallbackNever(expect_response, callback) == FALSE

\* Lines 281-286: the immediate callback of a fire-and-forget command.
ImmediateCallback(expect_response, callback) == ~expect_response /\ callback

\* An except clause that leaves the entry where it is.
ExceptKeepsEntry(p, cmd_id) == p

\* Lines 290-295: the except clause of send_command.
ExceptCleanup(p, cmd_id) == PendingPop(p, cmd_id)

Bump(s, key) == [s EXCEPT ![key] = @ + 1]

\* The ranges the specification gives for a command (section 4.1, 6): what a
\* call is recorded as, whatever the encoder then does with it.
OutOfRange(controller_id, command_type, value) ==
    \/ controller_id < 0 \/ controller_id > 255
    \/ command_type \notin {"duty", "current", "brake"}
    \/ (command_type = "duty" /\ (value < -1000 \/ value > 1000))
    \/ (command_type = "current" /\ (value < -100000 \/ value > 100000))
    \/ (command_type = "brake" /\ (value < 0 \/ value > 100000))

\* What is recorded of a send_command call: whether the encoder accepted it,
\* the flags, the target and timeout of an accepted call, and the outcome.
NoCall == [result |-> "none", valid |-> FALSE, out_of_range |-> FALSE,
           controller_id |-> 0,
           callback |-> FALSE, timeout |-> 0, expect_response |-> FALSE,
           send_failed |-> FALSE, registered_at |-> -1,
           matched |-> FALSE, matched_in_time |-> FALSE,
           sent_before |-> 0, bus_before |-> 0]

NoCallback == [success |-> 0, failure |-> 0, failure_at |-> -1]

NoFrame == [can_id |-> 0, data |-> << >>]

NoArgs == [can_id |-> 0, data |-> << >>, command_type |-> ""]

\* Frames the bus delivers while commands are tracked: a frame of a
\* non-telemetry packet type from each controller, and a status-1 broadcast
\* whose payload is too short.  All three parse to None.
ResponseFrames ==
    { [can_id |-> CAN_PACKET_SET_DUTY * 256 + c, data |-> << >>] : c \in Controllers }
    \cup { [can_id |-> CAN_PACKET_STATUS * 256 + 74, data |-> <<0, 0, 5, 220>>] }

\* The frames the receive thread is given: those, and a well-formed status-1
\* broadcast of controller 74 (rpm 1500, current 7.5 A, duty 0.25).
InboundFrames ==
    ResponseFrames
    \cup { [can_id |-> CAN_PACKET_STATUS * 256 + 74,
            data |-> <<0, 0, 5, 220, 0, 75, 0, 250>>] }

RECURSIVE SumUpTo(_, _)
SumUpTo(f, n) == IF n = 0 THEN 0 ELSE f[n] + SumUpTo(f, n - 1)

\* Number of times bus.send has been called so far.
BusCallsTotal == SumUpTo(busCalls, MaxCmds)

IfaceInit ==
    /\ bus = "none"
    /\ running = FALSE
    /\ lock = "none"
    /\ pending = << >>
    /\ stats = [messages_received |-> 0, messages_parsed |-> 0, commands_sent |-> 0,
                commands_successful |-> 0, commands_timeout |-> 0, parse_errors |-> 0]
    /\ live_data = << >>
    /\ telemetry_queue = << >>
    /\ now = 0
    /\ rxPc = "off"
    /\ rxMsg = NoFrame
    /\ kPc = "off"
    /\ kTime = 0
    /\ kExpired = << >>
    /\ kWake = 0
    /\ callerPc = "idle"
    /\ callFrame = NoArgs
    /\ nextId = 1
    /\ cur = 0
    /\ calls = [i \in CmdIds |-> NoCall]
    /\ cbLog = [i \in CmdIds |-> NoCallback]
    /\ busCalls = [i \in CmdIds |-> 0]
    /\ atDisconnect = {}
    /\ disconnected = FALSE

(***************************************************************************)
(* The caller thread: connect, send_command, disconnect                    *)
(***************************************************************************)
\* connect(): opens the bus and starts the two threads, or returns False
\* and changes nothing when can.interface.Bus raises.
Connect ==
    /\ callerPc = "idle"
    /\ bus = "none"
    /\ rxPc \in {"off", "done"}
    /\ kPc \in {"off", "done"}
    /\ \E ok \in BOOLEAN :
         IF ok
         THEN /\ bus' = "open"
              /\ running' = TRUE
              /\ rxPc' = "loop"
              /\ kPc' = "sleep"
              /\ kWake' = now
              /\ disconnected' = FALSE
         ELSE UNCHANGED <<bus, running, rxPc, kPc, kWake, disconnected>>
    /\ UNCHANGED <<atDisconnect, lock, pending, stats, live_data, telemetry_queue, now, rxMsg,
                   kTime, kExpired, callerPc, callFrame, nextId, cur, calls,
                   cbLog, busCalls>>
    /\ UNCHANGED <<nodeVars, farVars>>

\* send_command up to the registration of the pending entry: the bus check,
\* the uuid, the encoding (lines 241-263).
SendCommand ==
    /\ callerPc = "idle"
    /\ \E args \in CommandInputs, callback \in BOOLEAN, timeout \in Timeouts,
          expect_response \in BOOLEAN :
         IF bus = "none"
         THEN \* RuntimeError("CAN bus not connected")
              UNCHANGED <<cur, callerPc, callFrame, nextId, calls>>
         ELSE /\ nextId <= MaxCmds
              /\ LET controller_id == args[1]
                     enc == EncodeCommand(controller_id, args[2], args[3])
                 IN  /\ cur' = nextId
                     /\ nextId' = nextId + 1
                     /\ calls' = [calls EXCEPT ![nextId] =
                            [NoCall EXCEPT !.result = "active",
                                           !.valid = enc.ok,
                                           !.controller_id =
                                               IF enc.ok THEN controller_id ELSE 0,
                                           !.out_of_range =
                                               OutOfRange(args[1], args[2], args[3]),
                                           !.callback = callback,
                                           !.timeout = IF enc.ok THEN timeout ELSE 0,
                                           !.expect_response = expect_response,
                                           !.sent_before = stats.commands_sent,
                                           !.bus_before = BusCallsTotal]]
                     /\ callFrame' = IF enc.ok
                                     THEN [can_id |-> enc.can_id, data |-> enc.data,
                                           command_type |-> args[2]]
                                     ELSE NoArgs
                     /\ callerPc' = IF ~enc.ok THEN "exc_lock"
                                    ELSE IF expect_response THEN "reg_lock"
                                    ELSE "send"
    /\ UNCHANGED <<bus, running, lock, pending, stats, live_data, telemetry_queue,
                   now, rxPc, rxMsg, kPc, kTime, kExpired, kWake, cbLog, busCalls,
                   atDisconnect, disconnected>>
    /\ UNCHANGED <<nodeVars, farVars>>

\* Lines 266-275: with self.command_lock: pending_commands[cmd_id] = ...
SendRegister ==
    /\ callerPc = "reg_lock"
    /\ CanAcquire(lock, "caller")
    /\ LET c == calls[cur]
       IN  /\ pending' = RegisterPending(pending, c.expect_response,
                            PendingCommand(cur, now, c.controller_id, callFrame.command_type,
                                           c.callback, c.timeout))
           /\ calls' = [calls EXCEPT ![cur].registered_at = now]
    /\ callerPc' = "send"
    /\ UNCHANGED <<bus, running, lock, stats, live_data, telemetry_queue, now, rxPc,
                   rxMsg, kPc, kTime, kExpired, kWake, callFrame, nextId, cur,
                   cbLog, busCalls, atDisconnect, disconnected>>
    /\ UNCHANGED <<nodeVars, farVars>>

\* Lines 277-288: bus.send, the counter, the immediate callback, return;
\* or bus.send raises and control goes to the except clause.
SendBus ==
    /\ callerPc = "send"
    /\ busCalls' = [busCalls EXCEPT ![cur] = @ + 1]
    /\ \E ok \in BOOLEAN :
         IF ok /\ bus = "open"
         THEN /\ stats' = Bump(stats, "commands_sent")
              /\ cbLog' = IF ImmediateCallback(calls[cur].expect_response,
                                               calls[cur].callback)
                          THEN [cbLog EXCEPT ![cur].success = @ + 1]
                          ELSE cbLog
              /\ calls' = [calls EXCEPT ![cur].result = "returned"]
              /\ callFrame' = NoArgs
              /\ callerPc' = "idle"
         ELSE /\ calls' = [calls EXCEPT ![cur].send_failed = TRUE]
              /\ callerPc' = "exc_lock"
              /\ UNCHANGED <<stats, cbLog, callFrame>>
    /\ UNCHANGED <<bus, running, lock, pending, live_data, telemetry_queue, now,
                   rxPc, rxMsg, kPc, kTime, kExpired, kWake, nextId, cur,
                   atDisconnect, disconnected>>
    /\ UNCHANGED <<nodeVars, farVars>>

\* Lines 290-295: the except clause takes the lock, pops the entry, re-raises.
SendExcept ==
    /\ callerPc = "exc_lock"
    /\ CanAcquire(lock, "caller")
    /\ pending' = ExceptCleanup(pending, cur)
    /\ calls' = [calls EXCEPT ![cur].result = "raised"]
    /\ callFrame' = NoArgs
    /\ callerPc' = "idle"
    /\ UNCHANGED <<bus, running, lock, stats, live_data, telemetry_queue, now, rxPc,
                   rxMsg, kPc, kTime, kExpired, kWake, nextId, cur,
                   cbLog, busCalls, atDisconnect, disconnected>>
    /\ UNCHANGED <<nodeVars, farVars>>

\* disconnect(), line 89: self.running = False, then the joins begin.
Disconnect ==
    /\ callerPc = "idle"
    /\ bus = "open"
    /\ running' = FALSE
    /\ atDisconnect' = atDisconnect \cup PendingIds(pending)
    /\ callerPc' = "join"
    /\ UNCHANGED <<bus, lock, pending, stats, live_data, telemetry_queue, now, rxPc,
                   rxMsg, kPc, kTime, kExpired, kWake, callFrame, nextId, cur, calls,
                   cbLog, busCalls, disconnected>>
    /\ UNCHANGED <<nodeVars, farVars>>

\* A join(timeout=1.0) is over when the thread has ended, or when it cannot
\* end because it waits for command_lock (the join times out).
RxJoined == rxPc \in {"off", "done"}
            \/ (rxPc \in {"check", "blocked"} /\ ~CanAcquire(lock, "rx"))

CleanupJoined == kPc \in {"off", "done"}
                 \/ (kPc \in {"lock", "handle"} /\ ~CanAcquire(lock, "cleanup"))

\* disconnect(), lines 91-101: the joins, bus.shutdown(), self.bus = None.
DisconnectFinish ==
    /\ callerPc = "join"
    /\ RxJoined
    /\ CleanupJoined
    /\ bus' = "none"
    /\ disconnected' = TRUE
    /\ callerPc' = "idle"
    /\ UNCHANGED <<running, lock, pending, stats, live_data, telemetry_queue, now,
                   rxPc, rxMsg, kPc, kTime, kExpired, kWake, callFrame, nextId, cur,
                   calls, cbLog, busCalls, atDisconnect>>
    /\ UNCHANGED <<nodeVars, farVars>>

(***************************************************************************)
(* The receive thread: _receive_loop, _process_message,                    *)
(* _check_command_response, _handle_command_response                       *)
(***************************************************************************)
\* Lines 156-161: live_data[controller_id][msg_type] = data, last_update.
UpdateLiveData(ld, controller_id, msg_type, data, t) ==
    LET old == IF controller_id \in DOMAIN ld THEN ld[controller_id].status ELSE << >>
        new == [k \in DOMAIN old \cup {msg_type} |->
                   IF k = msg_type THEN data ELSE old[k]]
    IN  [c \in DOMAIN ld \cup {controller_id} |->
            IF c = controller_id THEN [status |-> new, last_update |-> t] ELSE ld[c]]

\* telemetry_queue.put_nowait(parsed); a full queue drops the message.
PutNowait(q, item) == IF Len(q) < TELEMETRY_QUEUE_MAX THEN Append(q, item) ELSE q

\* One pass of _receive_loop that gets a frame: the counter, parse_message,
\* and for a telemetry frame the rest of _process_message.
RxRecv ==
    /\ rxPc = "loop"
    /\ running
    /\ bus = "open"
    /\ stats.messages_received < MaxRx
    /\ \E f \in InboundFrames :
         LET parsed == parse_message(f.can_id, f.data)
         IN  IF parsed.none
             THEN /\ stats' = Bump(stats, "messages_received")
                  /\ rxMsg' = f
                  /\ rxPc' = "check"
                  /\ UNCHANGED <<live_data, telemetry_queue>>
             ELSE /\ stats' = Bump(Bump(stats, "messages_received"), "messages_parsed")
                  /\ live_data' = UpdateLiveData(live_data, parsed.controller_id,
                                                 parsed.type, parsed.data, now)
                  /\ telemetry_queue' = PutNowait(telemetry_queue, parsed)
                  /\ UNCHANGED <<rxMsg, rxPc>>
    /\ UNCHANGED <<bus, running, lock, pending, now, kPc, kTime, kExpired, kWake,
                   callerPc, callFrame, nextId, cur, calls, cbLog, busCalls,
                   atDisconnect, disconnected>>
    /\ UNCHANGED <<nodeVars, farVars>>

\* _check_command_response: takes command_lock, looks for the first pending
\* entry of the frame's controller and calls _handle_command_response, which
\* takes command_lock again while this thread holds it.  If that second
\* acquire cannot succeed the thread stays blocked, holding the lock.
RxCheckCommandResponse ==
    /\ rxPc = "check"
    /\ CanAcquire(lock, "rx")
    /\ LET controller_id == extract_controller_id(rxMsg.can_id)
           i == FirstPendingFor(pending, controller_id)
       IN  IF i = 0
           THEN /\ rxPc' = "loop"
                /\ rxMsg' = NoFrame
                /\ UNCHANGED <<lock, pending, stats, cbLog, calls>>
           ELSE LET cmd == pending[i]
                    r == HandleCommandResponse(pending, cmd.command_id)
                    in_time == cmd.retry_count = 0 /\ now - cmd.timestamp <= cmd.timeout
                IN  /\ calls' = [calls EXCEPT
                           ![cmd.command_id].matched = TRUE,
                           ![cmd.command_id].matched_in_time = @ \/ in_time]
                    /\ IF CanAcquire("rx", "rx")
                       THEN /\ pending' = r.pending
                            /\ stats' = IF r.resolved
                                        THEN Bump(stats, "commands_successful")
                                        ELSE stats
                            /\ cbLog' = IF r.callback
                                        THEN [cbLog EXCEPT ![cmd.command_id].success = @ + 1]
                                        ELSE cbLog
                            /\ rxPc' = "loop"
                            /\ rxMsg' = NoFrame
                            /\ UNCHANGED lock
                       ELSE /\ lock' = "rx"
                            /\ rxPc' = "blocked"
                            /\ UNCHANGED <<pending, stats, cbLog, rxMsg>>
    /\ UNCHANGED <<bus, running, live_data, telemetry_queue, now, kPc, kTime,
                   kExpired, kWake, callerPc, callFrame, nextId, cur, busCalls,
                   atDisconnect, disconnected>>
    /\ UNCHANGED <<nodeVars, farVars>>

\* while self.running: the loop ends once running is False.
RxExit ==
    /\ rxPc = "loop"
    /\ ~running
    /\ rxPc' = "done"
    /\ UNCHANGED <<bus, running, lock, pending, stats, live_data, telemetry_queue,
                   now, rxMsg, kPc, kTime, kExpired, kWake, callerPc, callFrame,
                   nextId, cur, calls, cbLog, busCalls, atDisconnect, disconnected>>
    /\ UNCHANGED <<nodeVars, farVars>>

(***************************************************************************)
(* The cleanup thread: _cleanup_loop, _handle_command_timeout              *)
(***************************************************************************)
\* The sleep is over: the loop ends if running is False, else it reads the
\* clock (line 120) and goes for the lock.
CleanupWake ==
    /\ kPc = "sleep"
    /\ now >= kWake
    /\ IF running
       THEN /\ kTime' = now
            /\ kPc' = "lock"
       ELSE /\ kPc' = "done"
            /\ UNCHANGED kTime
    /\ UNCHANGED <<bus, running, lock, pending, stats, live_data, telemetry_queue,
                   now, rxPc, rxMsg, kExpired, kWake, callerPc, callFrame, nextId,
                   cur, calls, cbLog, busCalls, atDisconnect, disconnected>>
    /\ UNCHANGED <<nodeVars, farVars>>

\* Lines 123-126: the scan under the lock; with nothing expired, the sleep.
CleanupScan ==
    /\ kPc = "lock"
    /\ CanAcquire(lock, "cleanup")
    /\ LET expired_commands == ExpiredCommands(pending, kTime)
       IN  IF expired_commands = << >>
           THEN /\ kPc' = "sleep"
                /\ kWake' = now + SWEEP_TICKS
                /\ UNCHANGED kExpired
           ELSE /\ kPc' = "handle"
                /\ kExpired' = expired_commands
                /\ UNCHANGED kWake
    /\ UNCHANGED <<bus, running, lock, pending, stats, live_data, telemetry_queue,
                   now, rxPc, rxMsg, kTime, callerPc, callFrame, nextId, cur, calls,
                   cbLog, busCalls, atDisconnect, disconnected>>
    /\ UNCHANGED <<nodeVars, farVars>>

\* Lines 129-132: _handle_command_timeout for the next expired command; after
\* the last one, the sleep.
CleanupHandleTimeout ==
    /\ kPc = "handle"
    /\ CanAcquire(lock, "cleanup")
    /\ LET cmd_id == Head(kExpired)
           r == HandleCommandTimeout(pending, cmd_id, now)
       IN  /\ pending' = r.pending
           /\ stats' = IF r.timed_out THEN Bump(stats, "commands_timeout") ELSE stats
           /\ cbLog' = IF r.callback
                       THEN [cbLog EXCEPT ![cmd_id].failure = @ + 1,
                                          ![cmd_id].failure_at = now]
                       ELSE cbLog
    /\ kExpired' = Tail(kExpired)
    /\ IF Tail(kExpired) = << >>
       THEN /\ kPc' = "sleep"
            /\ kWake' = now + SWEEP_TICKS
       ELSE UNCHANGED <<kPc, kWake>>
    /\ UNCHANGED <<bus, running, lock, live_data, telemetry_queue, now, rxPc, rxMsg,
                   kTime, callerPc, callFrame, nextId, cur, calls, busCalls,
                   atDisconnect, disconnected>>
    /\ UNCHANGED <<nodeVars, farVars>>

\* Computation takes no time; only the waits do (the sleep of the cleanup
\* loop, the wait for a frame, the wait for a lock, the caller between calls,
\* and bus.send(message, timeout=0.1), which returns or raises when the
\* driver is done with it).
\* A thread is due when it has a step to take that is not the end of a wait.
CleanupDue ==
    \/ (kPc = "sleep" /\ now >= kWake)
    \/ (kPc \in {"lock", "handle"} /\ CanAcquire(lock, "cleanup"))

RxDue ==
    \/ (rxPc = "check" /\ CanAcquire(lock, "rx"))
    \/ (rxPc = "loop" /\ ~running)

CallerDue ==
    \/ (callerPc \in {"reg_lock", "exc_lock"} /\ CanAcquire(lock, "caller"))
    \/ (callerPc = "join" /\ RxJoined /\ CleanupJoined)

\* Time passes, by one tick, when no thread is due.
Tick ==
    /\ now < MaxTime
    /\ ~CleanupDue
    /\ ~RxDue
    /\ ~CallerDue
    /\ now' = now + 1
    /\ UNCHANGED <<bus, running, lock, pending, stats, live_data, telemetry_queue,
                   rxPc, rxMsg, kPc, kTime, kExpired, kWake, callerPc, callFrame,
                   nextId, cur, calls, cbLog, busCalls, atDisconnect, disconnected>>
    /\ UNCHANGED <<nodeVars, farVars>>

CallerStep == Connect \/ SendCommand \/ SendRegister \/ SendBus \/ SendExcept
              \/ Disconnect \/ DisconnectFinish

RxStep == RxRecv \/ RxCheckCommandResponse \/ RxExit

CleanupStep == CleanupWake \/ CleanupScan \/ CleanupHandleTimeout

IfaceNext == CallerStep \/ RxStep \/ CleanupStep \/ Tick


(***************************************************************************)
(* Part II.  vesc_can/node_manager.py: VESCNodeManager                     *)
(*                                                                         *)
(* Two hosts, each with its own configuration directory and its own        *)
(* manager.  None is 0 for a node id and "" for a string; a dict is a      *)
(* function on the set of its keys.  Of a registry entry the fields the    *)
(* manager reads are kept: mac_address, is_self, device_type, last_seen.   *)
(***************************************************************************)
Managers == {1, 2}

Other(m) == 3 - m

\* uuid.getnode() of the two hosts, as _get_mac_address formats it.
MacOf(m) == IF m = 1 THEN "b8:27:eb:00:00:0d" ELSE "b8:27:eb:00:00:12"

\* int.from_bytes(sha256(mac).digest()[:4], 'big') % 64 of these addresses.
MacHashMod64(mac) ==
    CASE mac = "b8:27:eb:00:00:0d" -> 26
      [] mac = "b8:27:eb:00:00:12" -> 26
      [] mac = "b8:27:eb:00:00:01" -> 27
      [] OTHER -> 0

Band == NODE_ID_MIN .. NODE_ID_MAX

\* Node ids that frames and registrations of the environment carry.
SenderIds == {64, 90}

NoConfig == [exists |-> FALSE, mac_address |-> "", node_id |-> 0]

NoEntry == [mac_address |-> "", is_self |-> FALSE, device_type |-> "", last_seen |-> 0]

EmptyDict == [id \in {} |-> NoEntry]

\* A node_info argument: a key that is not given is "" (is_self: "absent").
NodeInfo(mac_address, device_type, is_self) ==
    [mac_address |-> mac_address, device_type |-> device_type, is_self |-> is_self]

SelfInfo(s) == NodeInfo(s.my_mac_address, "raspberry_pi", "true")

FrameInfo == NodeInfo("", "vesc_or_other", "absent")

_generate_node_id_from_mac(s) ==
    NODE_ID_MIN + (MacHashMod64(s.my_mac_address) % (NODE_ID_MAX - NODE_ID_MIN + 1))

\* The entries of a registry that were seen in the last 5 minutes.
Recent(registry, t) ==
    [id \in {i \in DOMAIN registry : registry[i].last_seen > t - ACTIVE_WINDOW_TICKS}
        |-> registry[id]]

_save_active_nodes(s, t) ==
    [s EXCEPT !.active_nodes_file = Recent(s.node_registry, t)]

_save_config(s) ==
    IF s.my_node_id = 0 THEN s
    ELSE [s EXCEPT !.config_file = [exists |-> TRUE,
                                    mac_address |-> s.my_mac_address,
                                    node_id |-> s.my_node_id]]

\* existing_info.update(node_info); existing_info['last_seen'] = current_time
DictUpdate(existing, info, t) ==
    [mac_address |-> IF info.mac_address # "" THEN info.mac_address
                     ELSE existing.mac_address,
     is_self     |-> IF info.is_self = "absent" THEN existing.is_self
                     ELSE info.is_self = "true",
     device_type |-> IF info.device_type # "" THEN info.device_type
                     ELSE existing.device_type,
     last_seen   |-> t]

DictSet(d, k, v) == [i \in DOMAIN d \cup {k} |-> IF i = k THEN v ELSE d[i]]

DictDel(d, k) == [i \in DOMAIN d \ {k} |-> d[i]]

register_node(s, node_id, node_info, t) ==
    LET existing == IF node_id \in DOMAIN s.node_registry
                    THEN s.node_registry[node_id] ELSE NoEntry
    IN  _save_active_nodes(
            [s EXCEPT !.active_nodes = @ \cup {node_id},
                      !.node_registry =
                          DictSet(@, node_id, DictUpdate(existing, node_info, t))],
            t)

Min(S) == CHOOSE x \in S : \A y \in S : x <= y

\* An assignment that takes the bottom of the band when every id is taken.
ChooseNodeIdBottomWhenFull(s) ==
    LET preferred_id == _generate_node_id_from_mac(s)
        free == Band \ s.active_nodes
    IN  IF preferred_id \notin s.active_nodes THEN preferred_id
        ELSE IF free # {} THEN Min(free)
        ELSE NODE_ID_MIN

\* The id _assign_node_id settles on.
ChooseNodeId(s) ==
    LET preferred_id == _generate_node_id_from_mac(s)
        free == Band \ s.active_nodes
    IN  IF preferred_id \notin s.active_nodes THEN preferred_id
        ELSE IF free # {} THEN Min(free)
        ELSE preferred_id

_assign_node_id(s, t) ==
    LET s1 == [s EXCEPT !.my_node_id = ChooseNodeId(s)]
    IN  _save_config(register_node(s1, s1.my_node_id, SelfInfo(s1), t))

get_node_id(s, t) == IF s.my_node_id = 0 THEN _assign_node_id(s, t) ELSE s

\* The result of detect_node_conflict in a state where the id is assigned.
ConflictDetected(s) ==
    /\ s.my_node_id \in DOMAIN s.node_registry
    /\ ~s.node_registry[s.my_node_id].is_self
    /\ s.node_registry[s.my_node_id].mac_address # ""
    /\ s.node_registry[s.my_node_id].mac_address # s.my_mac_address

resolve_node_conflict(s, t) ==
    LET old_id == s.my_node_id
        s1 == [s EXCEPT !.active_nodes = @ \ {old_id},
                        !.node_registry = DictDel(@, old_id),
                        !.my_node_id = 0]
    IN  _assign_node_id(s1, t)

cleanup_old_nodes(s, t) ==
    LET nodes_to_remove == {i \in DOMAIN s.node_registry :
                               s.node_registry[i].last_seen < t - CLEANUP_AGE_TICKS}
        s1 == [s EXCEPT !.active_nodes = @ \ nodes_to_remove,
                        !.node_registry =
                            [i \in DOMAIN @ \ nodes_to_remove |-> @[i]]]
    IN  IF nodes_to_remove # {} THEN _save_active_nodes(s1, t) ELSE s1

\* A force_node_id that does not check the band.
ForceNodeIdUnchecked(s, node_id, t) ==
    LET old_id == s.my_node_id
        s1 == [s EXCEPT !.active_nodes = @ \ {old_id},
                        !.node_registry = DictDel(@, old_id),
                        !.my_node_id = node_id]
    IN  _save_config(register_node(s1, node_id, SelfInfo(s1), t))

force_node_id(s, node_id, t) ==
    IF node_id < NODE_ID_MIN \/ node_id > NODE_ID_MAX
    THEN s   \* ValueError
    ELSE LET old_id == s.my_node_id
             s1 == [s EXCEPT !.active_nodes = @ \ {old_id},
                             !.node_registry = DictDel(@, old_id),
                             !.my_node_id = node_id]
         IN  _save_config(register_node(s1, node_id, SelfInfo(s1), t))

\* A constructor that takes the persisted id whatever identity it carries.
ConstructAnyIdentity(s, t) ==
    [s EXCEPT !.my_node_id = IF s.config_file.exists THEN s.config_file.node_id ELSE 0,
              !.active_nodes = DOMAIN Recent(s.active_nodes_file, t),
              !.node_registry = Recent(s.active_nodes_file, t)]

\* __init__ on a host that has the files of s: _load_config, _load_active_nodes.
Construct(s, t) ==
    [s EXCEPT !.my_node_id =
                  IF s.config_file.exists
                     /\ s.config_file.mac_address = s.my_mac_address
                  THEN s.config_file.node_id ELSE 0,
              !.active_nodes = DOMAIN Recent(s.active_nodes_file, t),
              !.node_registry = Recent(s.active_nodes_file, t)]

NewManager(m) ==
    [my_node_id |-> 0, my_mac_address |-> MacOf(m), active_nodes |-> {},
     node_registry |-> EmptyDict, config_file |-> NoConfig,
     active_nodes_file |-> EmptyDict]

NoOp == [op |-> "none", m |-> 0, old_id |-> 0, detected |-> FALSE,
         shared |-> FALSE, told |-> FALSE, sender |-> 0, active |-> {}]

NodeInit ==
    /\ mgr = [m \in Managers |-> NewManager(m)]
    /\ nodeNow = 0
    /\ nodeOps = 0
    /\ lastOp = NoOp

\* What a call on manager m saw: the id it held when the call began, whether
\* detect_node_conflict held, whether the other manager held the same id, and
\* whether m's registry carried the other manager's address under that id.
Seen(op, m, s) ==
    [op |-> op, m |-> m, old_id |-> s.my_node_id, sender |-> 0, active |-> {},
     detected |-> ConflictDetected(s),
     shared |-> s.my_node_id # 0 /\ s.my_node_id = mgr[Other(m)].my_node_id,
     told |-> /\ s.my_node_id \in DOMAIN s.node_registry
              /\ s.node_registry[s.my_node_id].mac_address = MacOf(Other(m))]

Called(op, m) == [NoOp EXCEPT !.op = op, !.m = m]

GetNodeId(m) ==
    /\ nodeOps < MaxNodeOps
    /\ mgr' = [mgr EXCEPT ![m] = get_node_id(@, nodeNow)]
    /\ lastOp' = Called("get_node_id", m)
    /\ nodeOps' = nodeOps + 1
    /\ UNCHANGED <<nodeNow, ifaceVars, farVars>>

\* register_node called with what the other manager registered for itself,
\* with or without the is_self key.
RegisterNode(m) ==
    /\ nodeOps < MaxNodeOps
    /\ mgr[Other(m)].my_node_id # 0
    /\ \E is_self \in {"absent", "false", "true"} :
         mgr' = [mgr EXCEPT ![m] =
                    register_node(@, mgr[Other(m)].my_node_id,
                                  NodeInfo(MacOf(Other(m)), "raspberry_pi", is_self),
                                  nodeNow)]
    /\ lastOp' = Called("register_node", m)
    /\ nodeOps' = nodeOps + 1
    /\ UNCHANGED <<nodeNow, ifaceVars, farVars>>

\* VESCNodeManager.handle_can_message: the sender of a frame is registered
\* unless it is this manager's own id.
HandleCanMessage(m) ==
    /\ nodeOps < MaxNodeOps
    /\ \E sender_node_id \in SenderIds :
         LET s1 == get_node_id(mgr[m], nodeNow)
         IN  mgr' = [mgr EXCEPT ![m] =
                        IF sender_node_id # s1.my_node_id
                        THEN register_node(s1, sender_node_id, FrameInfo, nodeNow)
                        ELSE s1]
    /\ lastOp' = Called("handle_can_message", m)
    /\ nodeOps' = nodeOps + 1
    /\ UNCHANGED <<nodeNow, ifaceVars, farVars>>

\* VESCCANService._handle_can_message, lines 188-192: the sender of every
\* parsed frame is registered.
ServiceHandleCanMessage(m) ==
    /\ nodeOps < MaxNodeOps
    /\ \E node_id \in SenderIds :
         /\ mgr' = [mgr EXCEPT ![m] = register_node(@, node_id, FrameInfo, nodeNow)]
         /\ lastOp' = [Called("_handle_can_message", m) EXCEPT !.sender = node_id]
    /\ nodeOps' = nodeOps + 1
    /\ UNCHANGED <<nodeNow, ifaceVars, farVars>>

\* One round of VESCCANService._message_worker, lines 297-299:
\* if detect_node_conflict(): resolve_node_conflict().
MessageWorker(m) ==
    /\ nodeOps < MaxNodeOps
    /\ LET s1 == get_node_id(mgr[m], nodeNow)
       IN  /\ mgr' = [mgr EXCEPT ![m] =
                         IF ConflictDetected(s1)
                         THEN resolve_node_conflict(s1, nodeNow) ELSE s1]
           /\ lastOp' = Seen("_message_worker", m, s1)
    /\ nodeOps' = nodeOps + 1
    /\ UNCHANGED <<nodeNow, ifaceVars, farVars>>

ResolveNodeConflict(m) ==
    /\ nodeOps < MaxNodeOps
    /\ mgr' = [mgr EXCEPT ![m] = resolve_node_conflict(@, nodeNow)]
    /\ lastOp' = Seen("resolve_node_conflict", m, mgr[m])
    /\ nodeOps' = nodeOps + 1
    /\ UNCHANGED <<nodeNow, ifaceVars, farVars>>

CleanupOldNodes(m) ==
    /\ nodeOps < MaxNodeOps
    /\ mgr' = [mgr EXCEPT ![m] = cleanup_old_nodes(@, nodeNow)]
    /\ lastOp' = Called("cleanup_old_nodes", m)
    /\ nodeOps' = nodeOps + 1
    /\ UNCHANGED <<nodeNow, ifaceVars, farVars>>

ForceNodeId(m) ==
    /\ nodeOps < MaxNodeOps
    /\ \E node_id \in {64, 90, 128} :
         mgr' = [mgr EXCEPT ![m] = force_node_id(@, node_id, nodeNow)]
    /\ lastOp' = Called("force_node_id", m)
    /\ nodeOps' = nodeOps + 1
    /\ UNCHANGED <<nodeNow, ifaceVars, farVars>>

\* The process on host m ends and a new manager is constructed there.
Restart(m) ==
    /\ nodeOps < MaxNodeOps
    /\ mgr' = [mgr EXCEPT ![m] = Construct(@, nodeNow)]
    /\ lastOp' = Called("__init__", m)
    /\ nodeOps' = nodeOps + 1
    /\ UNCHANGED <<nodeNow, ifaceVars, farVars>>

\* Between two runs the configuration file of host m is lost or damaged
\* (_load_config then finds nothing it can read), or is replaced by the file
\* the other host wrote.
ConfigFileChanges(m) ==
    /\ nodeOps < MaxNodeOps
    /\ \E f \in {NoConfig, mgr[Other(m)].config_file} :
         /\ f # mgr[m].config_file
         /\ mgr' = [mgr EXCEPT ![m].config_file = f]
    /\ lastOp' = Called("config_file", m)
    /\ nodeOps' = nodeOps + 1
    /\ UNCHANGED <<nodeNow, ifaceVars, farVars>>

NodeTick ==
    /\ nodeNow < MaxNodeTime
    /\ nodeNow' = nodeNow + 1
    /\ UNCHANGED <<mgr, nodeOps, lastOp, ifaceVars, farVars>>

NodeNext ==
    \/ \E m \in Managers : GetNodeId(m)
    \/ \E m \in Managers : RegisterNode(m)
    \/ \E m \in Managers : HandleCanMessage(m)
    \/ \E m \in Managers : ServiceHandleCanMessage(m)
    \/ \E m \in Managers : MessageWorker(m)
    \/ \E m \in Managers : ResolveNodeConflict(m)
    \/ \E m \in Managers : CleanupOldNodes(m)
    \/ \E m \in Managers : ForceNodeId(m)
    \/ \E m \in Managers : Restart(m)
    \/ \E m \in Managers : ConfigFileChanges(m)
    \/ NodeTick

(***************************************************************************)
(* Part III.  vesc_can/can_interface.py: VESCCANInterface                  *)
(*                                                                         *)
(* One user thread calls connect, disconnect, send_message and             *)
(* receive_message; the receive worker and the send worker run beside it.  *)
(* A frame is the number of its arrival (receive side) or of the           *)
(* send_message call that made it (send side).  No message_callback is     *)
(* installed.  join(timeout=1.0) and time.sleep(reconnect_delay = 1.0)     *)
(* last equally long, so a join gives up on a worker exactly when that     *)
(* worker began its sleep after the join had begun; every other step of a  *)
(* worker ends within the join.  connect is called on a transport that is  *)
(* not running and whose earlier workers have ended.                       *)
(***************************************************************************)
Workers == {"rx", "tx"}

SendIds == 1..MaxSends

QueueFullNever(q, maxsize) == FALSE

\* Queue.full(): put raises queue.Full (put_nowait at once, put after its timeout).
QueueFull(q, maxsize) == Len(q) >= maxsize

\* A worker thread exists and has not left its loop.
Alive(t) == can.wpc[t] \notin {"none", "dead"}

\* The caller's position while _stop_threads joins worker t.
JoinPc(t) == IF t = "rx" THEN "join_rx" ELSE "join_tx"

\* _handle_error: count the error; at max_consecutive_errors go to
\* _attempt_reconnect, else back to the worker's loop.
AfterErrorAboveThreshold(c) ==
    IF c.consecutive_errors + 1 > max_consecutive_errors THEN "reconnect" ELSE "loop"

AfterError(c) ==
    IF c.consecutive_errors + 1 >= max_consecutive_errors THEN "reconnect" ELSE "loop"

HandleError(c, t) ==
    [c EXCEPT !.consecutive_errors = @ + 1, !.wpc[t] = AfterError(c), !.wmsg[t] = 0]

CanInit ==
    /\ can = [bus |-> "none", is_connected |-> FALSE, is_running |-> FALSE,
              stop_event |-> FALSE,
              receive_queue |-> <<>>, send_queue |-> <<>>,
              consecutive_errors |-> 0,
              messages_sent |-> 0, messages_received |-> 0, queue_overflows |-> 0,
              thread_ref |-> [t \in Workers |-> FALSE],
              wpc |-> [t \in Workers |-> "none"],
              wmsg |-> [t \in Workers |-> 0],
              old_bus |-> [t \in Workers |-> "none"],
              cpc |-> "idle", cmsg |-> 0]
    /\ canObs = [ops |-> 0, next_send |-> 1,
                 sends |-> [i \in SendIds |->
                              [result |-> "none", refused |-> FALSE, had_room |-> FALSE,
                               data_ok |-> TRUE, enqueued |-> 0]],
                 consumed |-> {}, full_arrivals |-> 0, dropped_new |-> FALSE,
                 late_sleep |-> [t \in Workers |-> FALSE],
                 failed_attempts |-> [t \in Workers |-> 0],
                 open_failures |-> 0,
                 handles |-> 0, tx_dropped |-> {},
                 after_disconnect |-> FALSE, last |-> "none"]

\* ---- the user thread -------------------------------------------------------

\* connect(): Bus() opens or raises.
CanConnect ==
    /\ can.cpc = "idle" /\ canObs.ops < MaxCanOps
    /\ ~can.is_running /\ ~can.is_connected
    /\ \A t \in Workers : ~Alive(t)
    /\ \E opened \in BOOLEAN :
         IF opened
         THEN /\ can' = [can EXCEPT !.bus = "open", !.is_connected = TRUE,
                                    !.is_running = TRUE, !.consecutive_errors = 0,
                                    !.thread_ref = [t \in Workers |-> TRUE],
                                    !.wpc = [t \in Workers |-> "loop"]]
              /\ canObs' = [canObs EXCEPT !.ops = @ + 1, !.after_disconnect = FALSE,
                                          !.handles = @ + 1, !.last = "connect"]
         ELSE /\ canObs.open_failures < MaxOpenFailures
              \* _handle_error; its _attempt_reconnect returns at once: not running
              /\ can' = [can EXCEPT !.consecutive_errors = @ + 1]
              /\ canObs' = [canObs EXCEPT !.ops = @ + 1, !.after_disconnect = FALSE,
                                          !.open_failures = @ + 1,
                                          !.last = "connect_failed"]
    /\ UNCHANGED <<ifaceVars, nodeVars, svcVars, libVars>>

\* disconnect(), up to the call of _stop_threads.
CanDisconnect ==
    /\ can.cpc = "idle" /\ canObs.ops < MaxCanOps
    /\ can' = [can EXCEPT !.is_running = FALSE, !.stop_event = TRUE, !.cpc = "join_rx"]
    /\ canObs' = [canObs EXCEPT !.ops = @ + 1, !.last = "disconnect"]
    /\ UNCHANGED <<ifaceVars, nodeVars, svcVars, libVars>>

\* _stop_threads: thread.join(timeout=1.0) returns when the worker has ended,
\* or after 1.0 s; a thread that is not alive is not joined.  After the
\* second join both references are dropped.
JoinReturns(c, o, t) ==
    \/ ~(c.thread_ref[t] /\ c.wpc[t] \notin {"none", "dead"})
    \/ c.wpc[t] = "reconnect_sleep" /\ o.late_sleep[t]

Join(t) ==
    /\ can.cpc = JoinPc(t)
    /\ JoinReturns(can, canObs, t)
    /\ can' = IF t = "rx"
              THEN [can EXCEPT !.cpc = "join_tx"]
              ELSE [can EXCEPT !.cpc = "close", !.thread_ref = [u \in Workers |-> FALSE]]
    /\ UNCHANGED <<canObs, ifaceVars, nodeVars, svcVars, libVars>>

\* disconnect(), after _stop_threads: close the bus, clear the flags, return.
CanDisconnectFinish ==
    /\ can.cpc = "close"
    /\ can' = [can EXCEPT !.bus = "none", !.is_connected = FALSE,
                          !.stop_event = FALSE, !.cpc = "idle"]
    /\ canObs' = [canObs EXCEPT !.after_disconnect = TRUE,
                                !.handles = IF can.bus = "open" THEN @ - 1 ELSE @]
    /\ UNCHANGED <<ifaceVars, nodeVars, svcVars, libVars>>

\* send_message(), up to send_queue.put: False when not connected, an
\* exception when the data is longer than 8 bytes.
SendMessage ==
    /\ can.cpc = "idle" /\ canObs.ops < MaxCanOps
    /\ canObs.next_send <= MaxSends
    /\ LET id == canObs.next_send IN
       \E data_ok \in BOOLEAN :
         LET refused == ~can.is_connected \/ can.bus = "none"
             result == IF refused THEN "false"
                       ELSE IF ~data_ok THEN "raised" ELSE "waiting"
         IN  /\ can' = IF result = "waiting"
                       THEN [can EXCEPT !.cpc = "send_put", !.cmsg = id]
                       ELSE can
             /\ canObs' = [canObs EXCEPT
                              !.ops = @ + 1, !.next_send = @ + 1, !.last = "send_message",
                              !.sends[id] = [result |-> result, refused |-> refused,
                                             had_room |-> Len(can.send_queue) < SEND_QUEUE_MAXSIZE,
                                             data_ok |-> data_ok, enqueued |-> 0]]
    /\ UNCHANGED <<ifaceVars, nodeVars, svcVars, libVars>>

\* send_queue.put(msg, timeout): the frame goes in as soon as there is room;
\* queue.Full is raised when the timeout ends on a full queue.
SendPut ==
    /\ can.cpc = "send_put"
    /\ LET id == can.cmsg IN
       IF QueueFull(can.send_queue, SEND_QUEUE_MAXSIZE)
       THEN /\ can' = [can EXCEPT !.cpc = "idle", !.cmsg = 0]
            /\ canObs' = [canObs EXCEPT !.sends[id].result = "false"]
       ELSE /\ can' = [can EXCEPT !.send_queue = Append(@, id), !.cpc = "idle", !.cmsg = 0]
            /\ canObs' = [canObs EXCEPT !.sends[id].result = "true",
                                        !.sends[id].enqueued = @ + 1]
    /\ UNCHANGED <<ifaceVars, nodeVars, svcVars, libVars>>

\* receive_message(): the head of receive_queue (None, and no change, when
\* not connected or when nothing arrives within the timeout).
ReceiveMessage ==
    /\ can.cpc = "idle" /\ canObs.ops < MaxCanOps
    /\ can.is_connected
    /\ can.receive_queue # <<>>
    /\ can' = [can EXCEPT !.receive_queue = Tail(@)]
    /\ canObs' = [canObs EXCEPT !.ops = @ + 1, !.last = "receive_message",
                                !.consumed = @ \cup {Head(can.receive_queue)}]
    /\ UNCHANGED <<ifaceVars, nodeVars, svcVars, libVars>>

\* ---- _attempt_reconnect, run by the worker whose error reached the limit ----

\* Entry: return when not running; else drop the bus handle.
ReconnectBegin(t) ==
    /\ can.wpc[t] = "reconnect"
    /\ IF ~can.is_running
       THEN /\ can' = [can EXCEPT !.wpc[t] = "loop"]
            /\ canObs' = [canObs EXCEPT !.failed_attempts[t] = 0]
       ELSE /\ can' = [can EXCEPT !.old_bus[t] = can.bus,
                                  !.bus = "none", !.is_connected = FALSE,
                                  !.wpc[t] = "reconnect_shutdown"]
            /\ UNCHANGED canObs
    /\ UNCHANGED <<ifaceVars, nodeVars, svcVars, libVars>>

\* old_bus.shutdown(), then time.sleep(self.reconnect_delay) begins.
ReconnectSleep(t) ==
    /\ can.wpc[t] = "reconnect_shutdown"
    /\ can' = [can EXCEPT !.wpc[t] = "reconnect_sleep", !.old_bus[t] = "none"]
    /\ canObs' = [canObs EXCEPT !.late_sleep[t] = (can.cpc = JoinPc(t)),
                                !.handles = IF can.old_bus[t] = "open"
                                            THEN @ - 1 ELSE @]
    /\ UNCHANGED <<ifaceVars, nodeVars, svcVars, libVars>>

\* The sleep ends (after the join that began before it); the worker
\* looks at is_running again.
ReconnectWake(t) ==
    /\ can.wpc[t] = "reconnect_sleep"
    /\ ~(canObs.late_sleep[t] /\ can.cpc = JoinPc(t))
    /\ can' = [can EXCEPT !.wpc[t] = IF can.is_running THEN "reconnect_open" ELSE "loop"]
    /\ canObs' = [canObs EXCEPT !.late_sleep[t] = FALSE,
                                !.failed_attempts[t] = IF can.is_running THEN @ ELSE 0]
    /\ UNCHANGED <<ifaceVars, nodeVars, svcVars, libVars>>

\* Bus() opens, or raises and _attempt_reconnect calls _handle_error.
ReconnectOpen(t) ==
    /\ can.wpc[t] = "reconnect_open"
    /\ \E opened \in BOOLEAN :
         IF opened
         THEN /\ can' = [can EXCEPT !.bus = "open", !.is_connected = TRUE,
                                    !.consecutive_errors = 0, !.wpc[t] = "loop"]
              /\ canObs' = [canObs EXCEPT !.failed_attempts[t] = 0,
                                          !.handles = @ + 1]
         ELSE /\ canObs.open_failures < MaxOpenFailures
              /\ can' = HandleError(can, t)
              /\ canObs' = [canObs EXCEPT !.open_failures = @ + 1,
                                          !.failed_attempts[t] = @ + 1]
    /\ UNCHANGED <<ifaceVars, nodeVars, svcVars, libVars>>

\* ---- _receive_worker -------------------------------------------------------

\* The loop test, and the test of self.bus (time.sleep(0.1) when it is None).
RxLoop ==
    /\ can.wpc["rx"] = "loop"
    /\ IF can.is_running /\ ~can.stop_event
       THEN /\ can.bus = "open"
            /\ can' = [can EXCEPT !.wpc["rx"] = "recv"]
       ELSE can' = [can EXCEPT !.wpc["rx"] = "dead"]
    /\ UNCHANGED <<canObs, ifaceVars, nodeVars, svcVars, libVars>>

\* self.bus.recv(timeout=0.1): a frame, None, or an exception (also when
\* self.bus has become None since the test).
RxBusRecv ==
    /\ can.wpc["rx"] = "recv"
    /\ IF can.bus = "none"
       THEN can' = HandleError(can, "rx")
       ELSE \E outcome \in {"frame", "none", "raise"} :
              CASE outcome = "frame" ->
                     /\ can.messages_received < MaxFrames
                     /\ can' = [can EXCEPT !.messages_received = @ + 1,
                                           !.consecutive_errors = 0,
                                           !.wmsg["rx"] = can.messages_received + 1,
                                           !.wpc["rx"] = "put"]
                [] outcome = "none" -> can' = [can EXCEPT !.wpc["rx"] = "loop"]
                [] outcome = "raise" -> can' = HandleError(can, "rx")
    /\ UNCHANGED <<canObs, ifaceVars, nodeVars, svcVars, libVars>>

\* receive_queue.put_nowait(can_msg).
RxPut ==
    /\ can.wpc["rx"] = "put"
    /\ IF QueueFull(can.receive_queue, RECEIVE_QUEUE_MAXSIZE)
       THEN /\ can' = [can EXCEPT !.wpc["rx"] = "evict"]
            /\ canObs' = [canObs EXCEPT !.full_arrivals = @ + 1]
       ELSE /\ can' = [can EXCEPT !.receive_queue = Append(@, can.wmsg["rx"]),
                                  !.wmsg["rx"] = 0, !.wpc["rx"] = "loop"]
            /\ UNCHANGED canObs
    /\ UNCHANGED <<ifaceVars, nodeVars, svcVars, libVars>>

\* except queue.Full: receive_queue.get_nowait(); queue.Empty is passed over.
RxEvict ==
    /\ can.wpc["rx"] = "evict"
    /\ IF can.receive_queue = <<>>
       THEN /\ can' = [can EXCEPT !.wmsg["rx"] = 0, !.wpc["rx"] = "loop"]
            /\ canObs' = [canObs EXCEPT !.dropped_new = TRUE]
       ELSE /\ can' = [can EXCEPT !.receive_queue = Tail(@), !.wpc["rx"] = "reput"]
            /\ UNCHANGED canObs
    /\ UNCHANGED <<ifaceVars, nodeVars, svcVars, libVars>>

\* receive_queue.put_nowait(can_msg) again and queue_overflows += 1; a
\* queue.Full here goes to the worker's outer handler.
RxReput ==
    /\ can.wpc["rx"] = "reput"
    /\ IF QueueFull(can.receive_queue, RECEIVE_QUEUE_MAXSIZE)
       THEN can' = HandleError(can, "rx")
       ELSE can' = [can EXCEPT !.receive_queue = Append(@, can.wmsg["rx"]),
                               !.queue_overflows = @ + 1,
                               !.wmsg["rx"] = 0, !.wpc["rx"] = "loop"]
    /\ UNCHANGED <<canObs, ifaceVars, nodeVars, svcVars, libVars>>

\* ---- _send_worker ----------------------------------------------------------

\* The loop test and send_queue.get(timeout=0.1).
TxLoop ==
    /\ can.wpc["tx"] = "loop"
    /\ IF can.is_running /\ ~can.stop_event
       THEN /\ can.send_queue # <<>>
            /\ can' = [can EXCEPT !.send_queue = Tail(@),
                                  !.wmsg["tx"] = Head(can.send_queue),
                                  !.wpc["tx"] = "send_check"]
            /\ canObs' = IF can.cpc = "send_put"
                         THEN [canObs EXCEPT !.sends[can.cmsg].had_room = TRUE]
                         ELSE canObs
       ELSE /\ can' = [can EXCEPT !.wpc["tx"] = "dead"]
            /\ UNCHANGED canObs
    /\ UNCHANGED <<ifaceVars, nodeVars, svcVars, libVars>>

\* if not self.bus: continue
TxSendCheck ==
    /\ can.wpc["tx"] = "send_check"
    /\ IF can.bus = "none"
       THEN /\ can' = [can EXCEPT !.wmsg["tx"] = 0, !.wpc["tx"] = "loop"]
            /\ canObs' = [canObs EXCEPT !.tx_dropped = @ \cup {can.wmsg["tx"]}]
       ELSE /\ can' = [can EXCEPT !.wpc["tx"] = "send"]
            /\ UNCHANGED canObs
    /\ UNCHANGED <<ifaceVars, nodeVars, svcVars, libVars>>

\* self.bus.send(msg): sent, or an exception (also when self.bus has become
\* None since the test) and _handle_send_error.
TxBusSend ==
    /\ can.wpc["tx"] = "send"
    /\ IF can.bus = "none"
       THEN can' = HandleError(can, "tx")
       ELSE \E sent \in BOOLEAN :
              can' = IF sent
                     THEN [can EXCEPT !.messages_sent = @ + 1, !.consecutive_errors = 0,
                                      !.wmsg["tx"] = 0, !.wpc["tx"] = "loop"]
                     ELSE HandleError(can, "tx")
    /\ UNCHANGED <<canObs, ifaceVars, nodeVars, svcVars, libVars>>

CanNext ==
    \/ CanConnect
    \/ CanDisconnect
    \/ \E t \in Workers : Join(t)
    \/ CanDisconnectFinish
    \/ SendMessage
    \/ SendPut
    \/ ReceiveMessage
    \/ \E t \in Workers : ReconnectBegin(t)
    \/ \E t \in Workers : ReconnectSleep(t)
    \/ \E t \in Workers : ReconnectWake(t)
    \/ \E t \in Workers : ReconnectOpen(t)
    \/ RxLoop
    \/ RxBusRecv
    \/ RxPut
    \/ RxEvict
    \/ RxReput
    \/ TxLoop
    \/ TxSendCheck
    \/ TxBusSend

(***************************************************************************)
(* Part IV.  vesc_can/can_service.py: VESCCANService (status cache, status *)
(* history, ping, heartbeat, discovery), with the live data of             *)
(* core/vesc_interface.py and VESCController.is_connected of               *)
(* student_api.py beside it.                                               *)
(*                                                                         *)
(* The service runs on host 1 (node manager mgr[1]).  Time is svcNow, in   *)
(* ticks of 1.0 s; the message worker (0.1 s period) has made its round    *)
(* before the clock moves on.  A dict is a function on its keys.  The      *)
(* frames handed to can_interface.send_message are kept in svc.outbox.     *)
(* The 0.0 that the service starts its last_heartbeat_time and             *)
(* last_discovery_time with is the epoch, longer ago than either interval. *)
(***************************************************************************)
DictReplace(old, new) == new

DictMerge(old, new) ==
    [k \in DOMAIN old \cup DOMAIN new |-> IF k \in DOMAIN new THEN new[k] ELSE old[k]]

\* parse_can_status_1 .. parse_can_status_6 of vesc_can/protocol.py, each
\* with its timestamp; "error" is VESCProtocolError (payload too short).
parse_can_status(command, data, t) ==
    IF Len(data) < 8 THEN [error |-> TRUE]
    ELSE CASE command = CAN_PACKET_STATUS ->
                [rpm |-> UnpackInt32(SubSeq(data, 1, 4)),
                 current |-> Fixed(UnpackInt16(SubSeq(data, 5, 6)), 10),
                 duty |-> Fixed(UnpackInt16(SubSeq(data, 7, 8)), 1000),
                 timestamp |-> t]
           [] command = CAN_PACKET_STATUS_2 ->
                [amp_hours |-> Fixed(UnpackInt32(SubSeq(data, 1, 4)), 10000),
                 amp_hours_charged |-> Fixed(UnpackInt32(SubSeq(data, 5, 8)), 10000),
                 timestamp |-> t]
           [] command = CAN_PACKET_STATUS_3 ->
                [watt_hours |-> Fixed(UnpackInt32(SubSeq(data, 1, 4)), 10000),
                 watt_hours_charged |-> Fixed(UnpackInt32(SubSeq(data, 5, 8)), 10000),
                 timestamp |-> t]
           [] command = CAN_PACKET_STATUS_4 ->
                [temp_fet |-> Fixed(UnpackInt16(SubSeq(data, 1, 2)), 10),
                 temp_motor |-> Fixed(UnpackInt16(SubSeq(data, 3, 4)), 10),
                 current_in |-> Fixed(UnpackInt16(SubSeq(data, 5, 6)), 10),
                 pid_pos |-> Fixed(UnpackInt16(SubSeq(data, 7, 8)), 50),
                 timestamp |-> t]
           [] command = CAN_PACKET_STATUS_5 ->
                [tachometer |-> UnpackInt32(SubSeq(data, 1, 4)),
                 v_in |-> Fixed(UnpackInt16(SubSeq(data, 5, 6)), 10),
                 reserved |-> UnpackInt16(SubSeq(data, 7, 8)),
                 timestamp |-> t]
           [] command = CAN_PACKET_STATUS_6 ->
                [adc1 |-> Fixed(UnpackInt16(SubSeq(data, 1, 2)), 1000),
                 adc2 |-> Fixed(UnpackInt16(SubSeq(data, 3, 4)), 1000),
                 adc3 |-> Fixed(UnpackInt16(SubSeq(data, 5, 6)), 1000),
                 ppm |-> Fixed(UnpackInt16(SubSeq(data, 7, 8)), 1000),
                 timestamp |-> t]

STATUS_COMMANDS == {CAN_PACKET_STATUS, CAN_PACKET_STATUS_2, CAN_PACKET_STATUS_3,
                    CAN_PACKET_STATUS_4, CAN_PACKET_STATUS_5, CAN_PACKET_STATUS_6}

\* _handle_status_message with a field that is already cached left as it is.
HandleStatusMessageFirstWins(s, node_id, command, parsed) ==
    LET old == IF node_id \in DOMAIN s.status_cache THEN s.status_cache[node_id] ELSE << >>
        hist == IF node_id \in DOMAIN s.status_history THEN s.status_history[node_id] ELSE << >>
        appended == Append(hist, [timestamp |-> parsed.timestamp, command |-> command,
                                  data |-> parsed])
    IN  [s EXCEPT !.status_cache = DictSet(@, node_id, DictMerge(parsed, old)),
                  !.status_history =
                      DictSet(@, node_id,
                              IF Len(appended) > CAN_STATUS_MSGS_TO_STORE
                              THEN Tail(appended) ELSE appended),
                  !.status_messages_parsed = @ + 1,
                  !.active_vescs = @ \cup {node_id}]

\* _handle_status_message, under cache_lock: merge the parsed fields into
\* the node's cache entry, append the history entry to the node's
\* deque(maxlen=CAN_STATUS_MSGS_TO_STORE), count.
_handle_status_message(s, node_id, command, parsed) ==
    LET old == IF node_id \in DOMAIN s.status_cache THEN s.status_cache[node_id] ELSE << >>
        hist == IF node_id \in DOMAIN s.status_history THEN s.status_history[node_id] ELSE << >>
        entry == [timestamp |-> parsed.timestamp, command |-> command, data |-> parsed]
        appended == Append(hist, entry)
    IN  [s EXCEPT !.status_cache = DictSet(@, node_id, DictMerge(old, parsed)),
                  !.status_history =
                      DictSet(@, node_id,
                              IF Len(appended) > CAN_STATUS_MSGS_TO_STORE
                              THEN Tail(appended) ELSE appended),
                  !.status_messages_parsed = @ + 1,
                  !.active_vescs = @ \cup {node_id}]

HandlePingAnswering(s) ==
    [s EXCEPT !.ping_received = @ + 1, !.pong_sent = @ + 1,
              !.outbox = Append(@, [can_id |-> PONG * 256 + 0, data |-> << >>,
                                    by |-> "pong"])]

\* _handle_ping: the ping is counted; no pong is created or sent.
_handle_ping(s) == [s EXCEPT !.ping_received = @ + 1]

\* _send_heartbeat: the heartbeat is counted; the send is commented out.
_send_heartbeat(s) == [s EXCEPT !.heartbeats_sent = @ + 1]

\* _cleanup_status_cache: entries whose timestamp is older than
\* status_cache_timeout leave the cache and active_vescs.
_cleanup_status_cache(s, t) ==
    LET nodes_to_remove == {n \in DOMAIN s.status_cache :
                               s.status_cache[n].timestamp < t - status_cache_timeout}
    IN  [s EXCEPT !.status_cache = [n \in DOMAIN @ \ nodes_to_remove |-> @[n]],
                  !.active_vescs = @ \ nodes_to_remove]

\* get_status_history: history[-count:] if history else [].
get_status_history(s, node_id, count) ==
    LET history == IF node_id \in DOMAIN s.status_history
                   THEN s.status_history[node_id] ELSE << >>
        n == Len(history)
        start == IF count = 0 THEN 0 ELSE IF count > n THEN 0 ELSE n - count
    IN  SubSeq(history, start + 1, n)

\* VESCController.is_connected: live data exists and its last_update is
\* less than 2.0 s old.
is_connected(ld, controller_id, t) ==
    /\ controller_id \in DOMAIN ld
    /\ t - ld[controller_id].last_update < CONNECTED_WINDOW

\* Status frames on the bus: status 1, 2 and 4 broadcasts of controller 74,
\* a second status 1 broadcast of controller 74 with other values, a
\* status 1 broadcast of controller 75, and a status 1 frame that is too
\* short.
StatusFrames ==
    { [can_id |-> k * 256 + 74, data |-> <<0, 0, 3, 232, 0, 25, 1, 244>>] :
          k \in {CAN_PACKET_STATUS, CAN_PACKET_STATUS_2, CAN_PACKET_STATUS_4} }
    \cup { [can_id |-> CAN_PACKET_STATUS * 256 + 74, data |-> <<0, 0, 11, 184, 0, 40, 0, 200>>],
           [can_id |-> CAN_PACKET_STATUS * 256 + 75, data |-> <<0, 0, 7, 208, 0, 30, 0, 100>>],
           [can_id |-> CAN_PACKET_STATUS * 256 + 74, data |-> <<0, 0, 3, 232>>] }

\* The frames the service is called with: the status frames, a ping and a pong.
SvcFrames ==
    StatusFrames
    \cup { [can_id |-> PING * 256 + 74, data |-> << >>],
           [can_id |-> PONG * 256 + 75, data |-> << >>] }

NoSvcOp == [op |-> "none", node_id |-> 0, command |-> 0, ok |-> FALSE, count |-> 0,
            reply |-> << >>]

SvcInit ==
    /\ svc = [status_cache |-> << >>, status_history |-> << >>,
              ping_received |-> 0, pong_sent |-> 0, status_messages_parsed |-> 0,
              heartbeats_sent |-> 0, uart_requests_forwarded |-> 0,
              last_heartbeat_time |-> 0 - discovery_interval,
              last_discovery_time |-> 0 - discovery_interval,
              active_vescs |-> {}, outbox |-> << >>,
              uart_responses |-> << >>, uart_responses_received |-> 0,
              uart_call |-> [pc |-> "idle", node_id |-> 0, request_id |-> 0,
                            timeout |-> 0, result |-> << >>,
                            uart_packet |-> << >>, first |-> 0, failed |-> FALSE]]
    /\ svcNow = 0
    /\ svcObs = [ops |-> 0, last |-> NoSvcOp, before |-> svc, before_live |-> live_data,
                 cleaned |-> FALSE,
                 arrived |-> [n \in Controllers |-> << >>],
                 cat_time |-> [n \in Controllers |-> [k \in STATUS_COMMANDS |-> -1]],
                 core_cat_time |-> [n \in Controllers |-> [k \in STATUS_COMMANDS |-> -1]],
                 latest |-> [n \in Controllers |-> [k \in STATUS_COMMANDS |-> << >>]],
                 core_latest |-> [n \in Controllers |-> [k \in STATUS_COMMANDS |-> << >>]],
                 uart_ops |-> 0, uart_from_target |-> FALSE]

\* _handle_can_message, called by the transport for every received frame:
\* parse_can_message, the handler of the command, register_node.  An
\* exception (a status frame that is too short) leaves everything as it was.
OnCanMessage ==
    /\ svcObs.ops < MaxSvcOps
    /\ \E f \in SvcFrames :
         LET command == (f.can_id \div 256) % 256
             node_id == f.can_id % 256
             parsed == parse_can_status(command, f.data, svcNow)
             is_status == command \in STATUS_COMMANDS
             failed == is_status /\ "error" \in DOMAIN parsed
         IN  /\ svc' = IF failed THEN svc
                       ELSE IF command = PING THEN _handle_ping(svc)
                       ELSE IF is_status
                       THEN _handle_status_message(svc, node_id, command, parsed)
                       ELSE svc
             /\ mgr' = IF failed THEN mgr
                       ELSE [mgr EXCEPT ![1] =
                               LET s1 == IF command = PONG
                                         THEN register_node(@, node_id, FrameInfo, nodeNow)
                                         ELSE @
                               IN  register_node(s1, node_id, FrameInfo, nodeNow)]
             /\ svcObs' = [svcObs EXCEPT
                              !.ops = @ + 1, !.before = svc,
                              !.last = [NoSvcOp EXCEPT
                                          !.op = IF command = PING THEN "ping"
                                                 ELSE IF is_status THEN "status"
                                                 ELSE "other",
                                          !.node_id = node_id, !.command = command,
                                          !.ok = ~failed],
                              !.arrived = IF is_status /\ ~failed
                                          THEN [@ EXCEPT ![node_id] =
                                                  Append(@, [timestamp |-> svcNow,
                                                             command |-> command,
                                                             data |-> parsed])]
                                          ELSE @,
                              !.cat_time = IF is_status /\ ~failed
                                           THEN [@ EXCEPT ![node_id][command] = svcNow]
                                           ELSE @,
                              !.latest = IF is_status /\ ~failed
                                         THEN [@ EXCEPT ![node_id][command] = parsed]
                                         ELSE @]
    /\ UNCHANGED <<svcNow, nodeNow, nodeOps, lastOp, ifaceVars, canVars, libVars>>

\* One round of _message_worker: the node conflict check,
\* _cleanup_status_cache, _cleanup_uart_responses (no request is waiting).
MessageWorkerRound ==
    /\ ~svcObs.cleaned
    /\ LET s1 == get_node_id(mgr[1], nodeNow)
       IN  mgr' = [mgr EXCEPT ![1] =
                      IF ConflictDetected(s1)
                      THEN resolve_node_conflict(s1, nodeNow) ELSE s1]
    /\ svc' = _cleanup_status_cache(svc, svcNow)
    /\ svcObs' = [svcObs EXCEPT !.cleaned = TRUE, !.before = svc,
                                !.last = [NoSvcOp EXCEPT !.op = "cleanup"],
                                !.latest =
                                    [n \in Controllers |->
                                        IF n \in DOMAIN svc.status_cache
                                           /\ n \notin DOMAIN _cleanup_status_cache(svc, svcNow).status_cache
                                        THEN [k \in STATUS_COMMANDS |-> << >>]
                                        ELSE @[n]]]
    /\ UNCHANGED <<svcNow, nodeNow, nodeOps, lastOp, ifaceVars, canVars, libVars>>

\* A round of _heartbeat_worker in which the interval has passed.
HeartbeatWorker ==
    /\ svcNow - svc.last_heartbeat_time >= heartbeat_interval
    /\ svc' = [_send_heartbeat(svc) EXCEPT !.last_heartbeat_time = svcNow]
    /\ svcObs' = [svcObs EXCEPT !.before = svc,
                                !.last = [NoSvcOp EXCEPT !.op = "heartbeat"]]
    /\ UNCHANGED <<svcNow, nodeVars, ifaceVars, canVars, libVars>>

\* A round of _discovery_worker in which the interval has passed:
\* _perform_discovery sends a broadcast ping and cleans the node registry.
DiscoveryWorker ==
    /\ svcNow - svc.last_discovery_time >= discovery_interval
    /\ svc' = [svc EXCEPT !.outbox = Append(@, [can_id |-> PING * 256 + 0, data |-> << >>,
                                               by |-> "discovery"]),
                          !.last_discovery_time = svcNow]
    /\ mgr' = [mgr EXCEPT ![1] = cleanup_old_nodes(get_node_id(@, nodeNow), nodeNow)]
    /\ svcObs' = [svcObs EXCEPT !.before = svc,
                                !.last = [NoSvcOp EXCEPT !.op = "discovery"]]
    /\ UNCHANGED <<svcNow, nodeNow, nodeOps, lastOp, ifaceVars, canVars, libVars>>

\* send_can_command(node_id, command, data).
SendCanCommand ==
    /\ svcObs.ops < MaxSvcOps
    /\ \E node_id \in {74} :
         /\ svc' = [svc EXCEPT !.outbox =
                       Append(@, [can_id |-> CAN_PACKET_SET_DUTY * 256 + node_id,
                                  data |-> <<0, 0, 0, 1>>, by |-> "command"])]
         /\ svcObs' = [svcObs EXCEPT !.ops = @ + 1, !.before = svc,
                                     !.last = [NoSvcOp EXCEPT !.op = "send_can_command",
                                                              !.node_id = node_id]]
    /\ UNCHANGED <<svcNow, nodeVars, ifaceVars, canVars, libVars>>

\* send_uart_request(node_id, command, data) whose answer does not come:
\* the UART packet (6 bytes around the data) goes out in 8-byte fragments,
\* the first as FILL_RX_BUFFER, the others as FILL_RX_BUFFER_LONG, then
\* PROCESS_RX_BUFFER; the response queue is created and removed again.
SendUartRequest ==
    /\ svcObs.ops < MaxSvcOps
    /\ \E node_id \in {74}, data_len \in {0, 4} :
         LET packet_len == data_len + 6
             frames_needed == (packet_len + 7) \div 8
             fragment(i) == [can_id |-> (IF i = 1 THEN FILL_RX_BUFFER
                                         ELSE FILL_RX_BUFFER_LONG) * 256 + node_id,
                             data |-> [j \in 1..(IF i * 8 <= packet_len THEN 8
                                                 ELSE packet_len - (i - 1) * 8) |-> 0],
                             by |-> "uart"]
             fragments == [i \in 1..frames_needed |-> fragment(i)]
             process == [can_id |-> PROCESS_RX_BUFFER * 256 + node_id, data |-> << >>,
                         by |-> "uart"]
         IN  /\ svc' = [svc EXCEPT !.outbox = Append(@ \o fragments, process),
                                   !.uart_requests_forwarded = @ + 1]
             /\ svcObs' = [svcObs EXCEPT !.ops = @ + 1, !.before = svc,
                                         !.last = [NoSvcOp EXCEPT !.op = "send_uart_request",
                                                                  !.node_id = node_id]]
    /\ UNCHANGED <<svcNow, nodeVars, ifaceVars, canVars, libVars>>

\* A call of get_status_history(node_id, count).
GetStatusHistory ==
    /\ svcObs.ops < MaxSvcOps
    /\ \E node_id \in {74}, count \in 0..(CAN_STATUS_MSGS_TO_STORE + 1) :
         svcObs' = [svcObs EXCEPT
                       !.ops = @ + 1, !.before = svc,
                       !.last = [NoSvcOp EXCEPT
                                    !.op = "get_status_history", !.node_id = node_id,
                                    !.count = count,
                                    !.reply = get_status_history(svc, node_id, count)]]
    /\ UNCHANGED <<svc, svcNow, nodeVars, ifaceVars, canVars, libVars>>

\* VESCInterface._process_message of core/vesc_interface.py on a frame that
\* _receive_loop took from the bus; no command is pending.
CoreProcessMessage ==
    /\ svcObs.ops < MaxSvcOps
    /\ \E f \in StatusFrames :
         LET parsed == parse_message(f.can_id, f.data)
         IN  /\ IF parsed.none
                THEN /\ stats' = Bump(stats, "messages_received")
                     /\ UNCHANGED <<live_data, telemetry_queue>>
                ELSE /\ stats' = Bump(Bump(stats, "messages_received"), "messages_parsed")
                     /\ live_data' = UpdateLiveData(live_data, parsed.controller_id,
                                                    parsed.type, parsed.data, svcNow)
                     /\ telemetry_queue' = PutNowait(telemetry_queue, parsed)
             /\ svcObs' = [svcObs EXCEPT
                              !.ops = @ + 1, !.before_live = live_data,
                              !.last = [NoSvcOp EXCEPT
                                          !.op = "_process_message",
                                          !.node_id = extract_controller_id(f.can_id),
                                          !.command = extract_packet_type(f.can_id),
                                          !.ok = ~parsed.none],
                              !.core_cat_time =
                                  IF parsed.none THEN @
                                  ELSE [@ EXCEPT ![parsed.controller_id]
                                                  [extract_packet_type(f.can_id)] = svcNow],
                              !.core_latest =
                                  IF parsed.none THEN @
                                  ELSE [@ EXCEPT ![parsed.controller_id]
                                                  [extract_packet_type(f.can_id)] = parsed.data]]
    /\ UNCHANGED <<bus, running, lock, pending, now, rxPc, rxMsg, kPc, kTime, kExpired,
                   kWake, callerPc, callFrame, nextId, cur, calls, cbLog, busCalls,
                   atDisconnect, disconnected>>
    /\ UNCHANGED <<svc, svcNow, nodeVars, canVars, libVars>>

\* A second passes, once the workers have made the rounds that are due.
SvcTick ==
    /\ svcNow < MaxSvcTime
    /\ svcObs.cleaned
    /\ svcNow - svc.last_heartbeat_time < heartbeat_interval
    /\ svcNow - svc.last_discovery_time < discovery_interval
    /\ svcNow' = svcNow + 1
    /\ svcObs' = [svcObs EXCEPT !.cleaned = FALSE]
    /\ UNCHANGED <<svc, nodeVars, ifaceVars, canVars, libVars>>

SvcNext ==
    \/ OnCanMessage
    \/ MessageWorkerRound
    \/ HeartbeatWorker
    \/ DiscoveryWorker
    \/ SendCanCommand
    \/ SendUartRequest
    \/ GetStatusHistory
    \/ CoreProcessMessage
    \/ SvcTick

\* No call has been made on a codec; VESCController.__init__ of
\* student_api.py (_last_brake_command_time = 0.0, no call in progress).
\* student_api.py, VESCController.__init__.  Currents are counted in tenths
\* of an ampere, ramp times in hundredths of a second and the clock of the
\* API in steps of step_s = 0.1 s.  since_brake is time.time() -
\* _last_brake_command_time, which the interval guard compares with
\* _min_brake_interval; it is not counted beyond that value.
max_safe_brake_current == 100
min_safe_ramp_time == 300
max_safe_ramp_time == 1000
min_brake_interval == 10
ramp_down_steps == 10

LibInit ==
    /\ codec = [op |-> "none", lib |-> "none", kind |-> "none", node_id |-> 0,
                value |-> 0, out |-> EncodeError, command |-> 0,
                frame |-> [can_id |-> 0, data |-> << >>], now |-> 0, prev |-> << >>]
    /\ api = [pc |-> "idle", current_a |-> 0, ramp_up_steps |-> 0, i |-> 0,
              issued |-> << >>, result |-> "none", calls |-> 0,
              since_brake |-> min_brake_interval]

Init == IfaceInit /\ NodeInit /\ CanInit /\ SvcInit /\ LibInit

SpecIface == Init /\ [][IfaceNext]_vars

SpecNode == Init /\ [][NodeNext]_vars

SpecCan == Init /\ [][CanNext]_vars

SpecService == Init /\ [][SvcNext]_vars

(***************************************************************************)
(* vesc_can/protocol.py: the CRC16 and the UART packet builder, which      *)
(* Part V and Part VI both use.                                            *)
(***************************************************************************)
\* Bitwise exclusive or of two natural numbers (Python's ^).
RECURSIVE BitXor(_, _)
BitXor(a, b) ==
    IF a = 0 THEN b
    ELSE IF b = 0 THEN a
    ELSE ((a + b) % 2) + 2 * BitXor(a \div 2, b \div 2)

\* _generate_crc16_table: entry i is i << 8 taken through eight rounds of
\* "shift left, exclusive or with 0x1021 if bit 15 was set, keep 16 bits".
RECURSIVE Crc16TableRounds(_, _)
Crc16TableRounds(crc, rounds) ==
    IF rounds = 0 THEN crc
    ELSE Crc16TableRounds(IF crc >= 32768
                          THEN BitXor((crc * 2) % 65536, 4129)
                          ELSE (crc * 2) % 65536,
                          rounds - 1)

crc16_tab(i) == Crc16TableRounds(i * 256, 8)

\* The loop of _crc16 over the bytes data[lo..hi], in their order, starting
\* from crc: crc = ((crc << 8) ^ crc16_tab[((crc >> 8) ^ byte) & 0xFF]) & 0xFFFF.
\* (The range is split in two, and the left half is evaluated before the
\* right half is entered, so that the evaluation does not nest as deep as
\* the data is long.)
RECURSIVE Crc16Loop(_, _, _, _)
Crc16Loop(data, lo, hi, crc) ==
    IF lo > hi THEN crc
    ELSE IF lo = hi
    THEN BitXor((crc * 256) % 65536, crc16_tab(BitXor(crc \div 256, data[lo]) % 256))
    ELSE LET mid == (lo + hi) \div 2
             left == Crc16Loop(data, lo, mid, crc)
         IN  IF left < 0 THEN left ELSE Crc16Loop(data, mid + 1, hi, left)

\* _crc16(data, initial_crc)
_crc16(data, crc) == Crc16Loop(data, 1, Len(data), crc)

\* A packet builder that always writes the short header.
CreateUartPacketShortHeader(command, data) ==
    LET payload == <<command>> \o data
        packet == <<2, Len(payload) % 256>> \o payload
        crc == _crc16(Tail(packet), 0)
    IN  packet \o <<crc \div 256, crc % 256, 3>>

\* create_uart_packet: start byte and length (0x02 and one byte up to a
\* payload of 255 bytes, 0x03 and two bytes above), the payload (command
\* byte, data), the CRC of everything after the start byte, the end byte.
\* (struct.pack raises for a payload above 65535 bytes, beyond UartLengths.)
create_uart_packet(command, data) ==
    LET payload == <<command>> \o data
        payload_len == Len(payload)
        packet == IF payload_len <= 255
                  THEN <<2, payload_len>> \o payload
                  ELSE <<3, payload_len \div 256, payload_len % 256>> \o payload
        crc == _crc16(Tail(packet), 0)
    IN  packet \o <<crc \div 256, crc % 256, 3>>

(***************************************************************************)
(* Part V.  vesc_can/can_service.py: forwarding a UART request and waiting *)
(* for its answer.  One caller thread is in send_uart_request while the    *)
(* transport's receive worker calls _handle_can_message.  A response is    *)
(* the one-element sequence of the record put into the queue; None is the  *)
(* empty sequence.                                                         *)
(***************************************************************************)

\* _handle_other_message: the frame is put into the queue of every request
\* that is waiting (queue.Queue() is unbounded, so put_nowait never fails).
_handle_other_message(s, node_id, command, data) ==
    [s EXCEPT
        !.uart_responses =
            [r \in DOMAIN @ |-> Append(@[r], [node_id |-> node_id, command |-> command,
                                              data |-> data])],
        !.uart_responses_received = @ + Cardinality(DOMAIN s.uart_responses)]

\* Data of the forwarded commands: the UART packet is 6 bytes longer, so
\* these give packets of 6, 8, 9, 16 and 17 bytes (1, 1, 2, 2 and 3 frames).
UartRequestData ==
    { << >>, <<1, 2>>, <<1, 2, 3>>, <<1, 2, 3, 4, 5, 6, 7, 8, 9, 10>>,
      <<1, 2, 3, 4, 5, 6, 7, 8, 9, 10, 11>> }

\* uart_packet = self.protocol.create_uart_packet(command, data), for the
\* command GET_VALUES (4).
UartPackets == [data \in UartRequestData |-> create_uart_packet(4, data)]

\* frames_needed = packet_len // 8: the last, shorter slice is left out
UartFramesRoundedDown(uart_packet, node_id) ==
    LET packet_len == Len(uart_packet)
        frames_needed == packet_len \div 8
    IN  [i \in 1..frames_needed |->
            [can_id |-> (IF i = 1 THEN FILL_RX_BUFFER ELSE FILL_RX_BUFFER_LONG) * 256
                            + node_id,
             data |-> SubSeq(uart_packet, (i - 1) * 8 + 1,
                             IF i * 8 < packet_len THEN i * 8 ELSE packet_len),
             by |-> "uart"]]

\* The loop of send_uart_request: frames_needed = (packet_len + 7) // 8
\* frames carry uart_packet[i*8 : min(i*8 + 8, packet_len)], the first as
\* FILL_RX_BUFFER and the others as FILL_RX_BUFFER_LONG.
UartFrames(uart_packet, node_id) ==
    LET packet_len == Len(uart_packet)
        frames_needed == (packet_len + 7) \div 8
    IN  [i \in 1..frames_needed |->
            [can_id |-> (IF i = 1 THEN FILL_RX_BUFFER ELSE FILL_RX_BUFFER_LONG) * 256
                            + node_id,
             data |-> SubSeq(uart_packet, (i - 1) * 8 + 1,
                             IF i * 8 < packet_len THEN i * 8 ELSE packet_len),
             by |-> "uart"]]

\* send_uart_request up to the point where it waits: the UART packet is
\* built, the response queue is registered under request_id = time.time(),
\* the packet goes out in frames, then PROCESS_RX_BUFFER.  A send_message
\* call that raises (the first one, or the one for PROCESS_RX_BUFFER, after
\* `handed` frames) ends the call: the finally clause removes the queue and
\* the outer handler returns None.
UartRequest ==
    /\ svc.uart_call.pc = "idle"
    /\ svcObs.uart_ops < MaxUartOps
    /\ \E node_id \in Controllers, timeout \in 1..MaxUartTimeout,
          data \in UartRequestData, raises \in BOOLEAN :
         LET uart_packet == UartPackets[data]
             frames == UartFrames(uart_packet, node_id)
             process == [can_id |-> PROCESS_RX_BUFFER * 256 + node_id,
                         data |-> << >>, by |-> "uart"]
             call == [pc |-> "waiting", node_id |-> node_id,
                      request_id |-> svcNow, timeout |-> timeout,
                      result |-> << >>, uart_packet |-> uart_packet,
                      first |-> Len(svc.outbox), failed |-> FALSE]
         IN  /\ IF raises
                THEN \E handed \in {0, Len(frames)} :
                       svc' = [svc EXCEPT
                                 !.outbox = @ \o SubSeq(frames, 1, handed),
                                 !.uart_call = [call EXCEPT !.pc = "returned",
                                                            !.failed = TRUE]]
                ELSE svc' = [svc EXCEPT
                               !.uart_responses = (svcNow :> << >>) @@ @,
                               !.outbox = @ \o frames \o <<process>>,
                               !.uart_requests_forwarded = @ + 1,
                               !.uart_call = call]
             /\ svcObs' = [svcObs EXCEPT !.uart_ops = @ + 1, !.uart_from_target = FALSE,
                                         !.before = svc,
                                         !.last = [NoSvcOp EXCEPT !.op = "send_uart_request",
                                                                  !.node_id = node_id]]
    /\ UNCHANGED <<svcNow, nodeVars, ifaceVars, canVars, libVars>>

\* _handle_can_message on a frame that is neither a status frame nor a
\* ping or pong (PROCESS_SHORT_BUFFER, the frame a VESC answers with):
\* _handle_other_message, then register_node.
OnOtherMessage ==
    /\ svcObs.uart_ops < MaxUartOps
    /\ \E node_id \in Controllers :
         /\ svc' = _handle_other_message(svc, node_id, PROCESS_SHORT_BUFFER, <<1, 2>>)
         /\ mgr' = [mgr EXCEPT ![1] = register_node(@, node_id, FrameInfo, nodeNow)]
         /\ svcObs' = [svcObs EXCEPT
                          !.uart_ops = @ + 1, !.before = svc,
                          !.uart_from_target =
                              @ \/ (svc.uart_call.pc = "waiting"
                                    /\ node_id = svc.uart_call.node_id),
                          !.last = [NoSvcOp EXCEPT !.op = "other", !.node_id = node_id,
                                                   !.command = PROCESS_SHORT_BUFFER,
                                                   !.ok = TRUE]]
    /\ UNCHANGED <<svcNow, nodeNow, nodeOps, lastOp, ifaceVars, canVars, libVars>>

\* response_queue.get(timeout=timeout) returns: with the first response put
\* into the queue, or with queue.Empty once the timeout has passed; the
\* finally clause removes the queue.
UartReturn ==
    /\ svc.uart_call.pc = "waiting"
    /\ LET c == svc.uart_call
           q == svc.uart_responses[c.request_id]
       IN  /\ q # << >> \/ svcNow - c.request_id >= c.timeout
           /\ svc' = [svc EXCEPT
                         !.uart_responses =
                             [r \in DOMAIN @ \ {c.request_id} |-> @[r]],
                         !.uart_call = [c EXCEPT
                                          !.pc = "returned",
                                          !.result = IF q # << >> THEN <<Head(q)>>
                                                     ELSE << >>]]
    /\ svcObs' = [svcObs EXCEPT !.before = svc,
                                !.last = [NoSvcOp EXCEPT !.op = "uart_return",
                                                         !.node_id = svc.uart_call.node_id]]
    /\ UNCHANGED <<svcNow, nodeVars, ifaceVars, canVars, libVars>>

\* The caller goes on after send_uart_request has returned.
UartDone ==
    /\ svc.uart_call.pc = "returned"
    /\ svc' = [svc EXCEPT !.uart_call.pc = "idle"]
    /\ UNCHANGED <<svcObs, svcNow, nodeVars, ifaceVars, canVars, libVars>>

\* A second passes; a caller whose timeout has passed returns first.
UartTick ==
    /\ svcNow < MaxSvcTime
    /\ ~(svc.uart_call.pc = "waiting"
         /\ svcNow - svc.uart_call.request_id >= svc.uart_call.timeout)
    /\ svcNow' = svcNow + 1
    /\ UNCHANGED <<svc, svcObs, nodeVars, ifaceVars, canVars, libVars>>

UartNext ==
    \/ UartRequest
    \/ OnOtherMessage
    \/ UartReturn
    \/ UartDone
    \/ UartTick

SpecUart == Init /\ [][UartNext]_vars

(***************************************************************************)
(* Part VI.  The frame codecs: core/commands.py and core/protocol.py       *)
(* (VESCCommandEncoder, VESCProtocolParser) and vesc_can/protocol.py       *)
(* (VESCProtocol).  The codecs keep no state between calls: codec holds    *)
(* the last call and what it returned.                                     *)
(***************************************************************************)

\* _pack_can_frame: can_id = (command.value << 8) | (node_id & 0xFF).
_pack_can_frame(command, node_id, data) ==
    IF Len(data) > 8 THEN EncodeError
    ELSE [ok |-> TRUE, can_id |-> command * 256 + (node_id % 256), data |-> data]

\* _unpack_can_frame: <<(can_id >> 8) & 0xFF, can_id & 0xFF>>.
_unpack_can_frame(can_id) == << (can_id \div 256) % 256, can_id % 256 >>

\* The three create_can_set_* encoders written out below take the value in
\* thousandths; struct.pack('>i', ...) raises only beyond 32 bits, which no
\* value of EncodeValues reaches.
create_can_set_duty(duty, node_id) ==
    IF ~(-1000 <= duty /\ duty <= 1000) THEN EncodeError
    ELSE _pack_can_frame(CAN_PACKET_SET_DUTY, node_id, PackInt32(duty * 100))

create_can_set_current(current, node_id) ==
    _pack_can_frame(CAN_PACKET_SET_CURRENT, node_id, PackInt32(current))

create_can_set_current_brake(current, node_id) ==
    _pack_can_frame(CAN_PACKET_SET_CURRENT_BRAKE, node_id,
                    PackInt32(IF current < 0 THEN 0 - current ELSE current))

\* Values handed to the encoders, in thousandths: inside, on and beyond the
\* limits of each kind of command.
EncodeValues == {-100001, -100000, -1500, -1001, -1000, 0, 500, 1000, 1001,
                 5000, 100000, 100001, 150000}

\* A call of one of the set-duty, set-current, set-brake-current encoders.
CodecEncode ==
    /\ codec.op = "none"
    /\ \E lib \in {"core", "vesc_can"}, kind \in {"duty", "current", "brake"},
       node_id \in {0, 74, 255}, value \in EncodeValues :
        codec' = [codec EXCEPT
                    !.op = "encode", !.lib = lib, !.kind = kind,
                    !.node_id = node_id, !.value = value, !.command = 0,
                    !.out = IF lib = "core" THEN EncodeCommand(node_id, kind, value)
                            ELSE IF kind = "duty" THEN create_can_set_duty(value, node_id)
                            ELSE IF kind = "current"
                            THEN create_can_set_current(value, node_id)
                            ELSE create_can_set_current_brake(value, node_id)]
    /\ UNCHANGED <<ifaceVars, nodeVars, canVars, svcVars, api>>

\* An arbitration id is built from a command and a node id as
\* _pack_can_frame builds it and taken apart again: by extract_packet_type
\* and extract_controller_id (core), by _unpack_can_frame (vesc_can).
CodecExtract ==
    /\ codec.op = "none"
    /\ \E lib \in {"core", "vesc_can"}, command \in 0..controller_id_mask,
          node_id \in 0..controller_id_mask :
        LET can_id == _pack_can_frame(command, node_id, << >>).can_id
        IN  codec' = [codec EXCEPT
                        !.op = "extract", !.lib = lib, !.kind = "none",
                        !.node_id = node_id, !.value = 0, !.command = command,
                        !.out = [ok |-> TRUE, can_id |-> can_id,
                                 data |-> IF lib = "core"
                                          THEN <<extract_packet_type(can_id),
                                                 extract_controller_id(can_id)>>
                                          ELSE _unpack_can_frame(can_id)]]
    /\ UNCHANGED <<ifaceVars, nodeVars, canVars, svcVars, api>>

\* parse_uart_packet: None, or the command and the data of a packet whose
\* start byte, length, end byte, CRC and command byte are all in order
\* (VESCCommands has the members 0..152 and 156..159).
parse_uart_packet(packet) ==
    LET start_byte == packet[1]
        long == start_byte = 3
        payload_start == IF long THEN 3 ELSE 2
        payload_len == IF long THEN (packet[2] * 256) + packet[3] ELSE packet[2]
        payload == SubSeq(packet, payload_start + 1, payload_start + payload_len)
        crc_received == (packet[payload_start + payload_len + 1] * 256)
                            + packet[payload_start + payload_len + 2]
        end_byte == packet[payload_start + payload_len + 3]
    IN  IF Len(packet) < 5 THEN [none |-> TRUE]
        ELSE IF start_byte \notin {2, 3} THEN [none |-> TRUE]
        ELSE IF Len(packet) < (IF long THEN 7 ELSE 6) THEN [none |-> TRUE]
        ELSE IF Len(packet) < payload_start + payload_len + 3 THEN [none |-> TRUE]
        ELSE IF end_byte # 3 THEN [none |-> TRUE]
        ELSE IF crc_received # _crc16(SubSeq(packet, 2, payload_start + payload_len), 0)
        THEN [none |-> TRUE]
        ELSE IF payload_len < 1 THEN [none |-> TRUE]
        ELSE IF payload[1] \notin (0..152) \cup (156..159) THEN [none |-> TRUE]
        ELSE [none |-> FALSE, command |-> payload[1], data |-> Tail(payload)]

\* Lengths of the data handed to create_uart_packet: the payload (command
\* byte and data) is 255 bytes long for 254 bytes of data, the last short
\* packet, and 256 bytes long for 255, the first long one.
UartLengths == {0, 1, 3, 254, 255, 256}

\* A UART packet is built by create_uart_packet and parsed back by
\* parse_uart_packet.  The data bytes are the multiples of fill modulo 256.
CodecUart ==
    /\ codec.op = "none"
    /\ \E command \in {0, 4, 152, 159}, len \in UartLengths, fill \in {0, 7, 255} :
         LET data == [i \in 1..len |-> (i * fill) % 256]
             packet == create_uart_packet(command, data)
         IN  codec' = [codec EXCEPT
                         !.op = "uart", !.lib = "vesc_can", !.command = command,
                         !.frame = [can_id |-> 0, data |-> data],
                         !.out = [ok |-> TRUE, packet |-> packet,
                                  parsed |-> parse_uart_packet(packet)]]
    /\ UNCHANGED <<ifaceVars, nodeVars, canVars, svcVars, api>>

\* The call has returned and its result has been looked at.
CodecReturn ==
    /\ codec.op # "none"
    /\ codec' = [codec EXCEPT !.op = "none", !.lib = "none", !.kind = "none",
                              !.node_id = 0, !.value = 0, !.out = EncodeError,
                              !.command = 0,
                              !.frame = [can_id |-> 0, data |-> << >>]]
    /\ UNCHANGED <<ifaceVars, nodeVars, canVars, svcVars, api>>

CodecNext ==
    \/ CodecEncode
    \/ CodecExtract
    \/ CodecUart
    \/ CodecReturn

SpecCodec == Init /\ [][CodecNext]_vars

\* parse_can_message of vesc_can/protocol.py, called at time t: None for a
\* command that is not a VESCCANCommands member (the members are 0..63),
\* the status fields for a status command, a flag for ping and pong, the
\* raw payload otherwise.  A status payload that is too short raises.
parse_can_message(can_id, data, t) ==
    LET command == _unpack_can_frame(can_id)[1]
        node_id == _unpack_can_frame(can_id)[2]
    IN  IF command > 63 THEN [none |-> TRUE]
        ELSE [none |-> FALSE, command |-> command, node_id |-> node_id,
              fields |-> IF command \in STATUS_COMMANDS
                         THEN parse_can_status(command, data, t)
                         ELSE IF command = PING THEN [ping |-> TRUE]
                         ELSE IF command = PONG THEN [pong |-> TRUE]
                         ELSE [raw_data |-> data]]

\* A frame is decoded, by parse_message of the core parser or by
\* parse_can_message.  An earlier decode stays remembered in prev, or the
\* decode before this one takes its place.
DecodeCall ==
    /\ \E lib \in {"core", "vesc_can"}, f \in SvcFrames, keep \in BOOLEAN :
           codec' = [codec EXCEPT
                       !.op = "decode", !.lib = lib, !.frame = f,
                       !.out = IF lib = "core" THEN parse_message(f.can_id, f.data)
                               ELSE parse_can_message(f.can_id, f.data, codec.now),
                       !.prev = IF codec.op = "decode" /\ ~(keep /\ @ # << >>)
                                THEN <<[lib |-> codec.lib, frame |-> codec.frame,
                                        out |-> codec.out]>>
                                ELSE @]
    /\ UNCHANGED <<ifaceVars, nodeVars, canVars, svcVars, api>>

\* Time passes between two decodes.
DecodeTick ==
    /\ codec.now < MaxDecodeTime
    /\ codec' = [codec EXCEPT !.now = @ + 1]
    /\ UNCHANGED <<ifaceVars, nodeVars, canVars, svcVars, api>>

DecodeNext ==
    \/ DecodeCall
    \/ DecodeTick

SpecDecode == Init /\ [][DecodeNext]_vars

(***************************************************************************)
(* Part VII.  student_api.py: VESCController.set_brake_current.  One       *)
(* caller is in the call; every step of its two loops is one send_command  *)
(* (expect_response=False) followed by time.sleep(step_s).  A level is the *)
(* exact fraction [num, den] of the product the source computes in         *)
(* floating point: current_a * (i / ramp_up_steps) is                      *)
(* (current_a * i) / ramp_up_steps.                                        *)
(***************************************************************************)
BrakeCurrents == {-1, 0, 30, 100, 101}

\* No ramp time below is at a tie of round(), so round() is the nearest
\* integer.
RampTimes == {299, 300, 314, 1000, 1001}

\* max(1, int(round(ramp_time_s / step_s)))
RampUpSteps(ramp_time_s) ==
    LET r == (ramp_time_s + 5) \div 10 IN IF r < 1 THEN 1 ELSE r

\* level = current_a * ((i - 1) / ramp_up_steps): a ramp that starts at 0
RampUpLevelFromZero(current_a, i, steps) ==
    [num |-> current_a * (i - 1), den |-> steps]

\* level = current_a * (i / ramp_up_steps)
ramp_up_level(current_a, i, steps) ==
    [num |-> current_a * i, den |-> steps]

\* max(0.0, current_a * (1 - (j / ramp_down_steps)))
ramp_down_level(current_a, j) ==
    LET level == current_a * (ramp_down_steps - j)
    IN  [num |-> IF level < 0 THEN 0 ELSE level, den |-> ramp_down_steps]

\* The checks of the arguments, the interval guard, _check_command_rate and
\* the computation of ramp_up_steps.
ApiCall ==
    /\ api.pc = "idle"
    /\ api.calls < MaxApiCalls
    /\ \E current_a \in BrakeCurrents, ramp_time_s \in RampTimes :
         LET valid == /\ 0 <= current_a /\ current_a <= max_safe_brake_current
                      /\ min_safe_ramp_time <= ramp_time_s
                      /\ ramp_time_s <= max_safe_ramp_time
             refused == api.since_brake < min_brake_interval
         IN  api' = [api EXCEPT
                 !.calls = @ + 1,
                 !.current_a = current_a,
                 !.ramp_up_steps = RampUpSteps(ramp_time_s),
                 !.i = 1,
                 !.issued = << >>,
                 !.result = IF ~valid THEN "ValueError"
                            ELSE IF refused THEN "False" ELSE "none",
                 !.pc = IF ~valid \/ refused THEN "done" ELSE "up",
                 !.since_brake = IF valid /\ ~refused THEN 0 ELSE @]
    /\ UNCHANGED <<ifaceVars, nodeVars, canVars, svcVars, codec>>

\* One send_command(controller_id, 'brake', level, callback=None,
\* timeout=2.0, expect_response=False) of the ramp-up loop, the ramp-down
\* loop or the final write, and the sleep after it.  A send that raises ends
\* (a missing bus, an encoder error, a bus.send error) ends the call with
\* False.
ApiSend ==
    /\ api.pc \in {"up", "down", "final"}
    /\ \E ok \in BOOLEAN :
         LET level == IF api.pc = "up"
                      THEN ramp_up_level(api.current_a, api.i,
                                         api.ramp_up_steps)
                      ELSE IF api.pc = "down"
                      THEN ramp_down_level(api.current_a, api.i)
                      ELSE [num |-> 0, den |-> 1]
             last == IF api.pc = "up" THEN api.ramp_up_steps
                     ELSE ramp_down_steps
         IN  IF ~ok
             THEN /\ api' = [api EXCEPT !.pc = "done", !.result = "False"]
                  /\ UNCHANGED pending
             ELSE /\ pending' = RegisterPending(pending, FALSE,
                                                [controller_id |-> 74])
                  /\ api' = [api EXCEPT
                         !.issued = Append(@, level),
                         !.since_brake =
                             IF api.pc = "final" \/ @ = min_brake_interval
                             THEN @ ELSE @ + 1,
                         !.i = IF api.pc # "final" /\ api.i < last
                               THEN @ + 1 ELSE 1,
                         !.pc = IF api.pc = "final" THEN "done"
                                ELSE IF api.i < last THEN @
                                ELSE IF api.pc = "up" THEN "down"
                                ELSE "final",
                         !.result = IF api.pc = "final" THEN "True" ELSE @]
    /\ UNCHANGED <<bus, running, lock, stats, live_data, telemetry_queue, now,
                   rxPc, rxMsg, kPc, kTime, kExpired, kWake, callerPc,
                   callFrame, nextId, cur, calls, cbLog, busCalls,
                   atDisconnect, disconnected>>
    /\ UNCHANGED <<nodeVars, canVars, svcVars, codec>>

\* The caller has the result and may call again.
ApiReturn ==
    /\ api.pc = "done"
    /\ api' = [api EXCEPT !.pc = "idle", !.current_a = 0,
                           !.ramp_up_steps = 0, !.i = 0, !.issued = << >>,
                           !.result = "none"]
    /\ UNCHANGED <<ifaceVars, nodeVars, canVars, svcVars, codec>>

ApiNext ==
    \/ ApiCall
    \/ ApiSend
    \/ ApiReturn

SpecApi == Init /\ [][ApiNext]_vars

(***************************************************************************)
(* Part VIII.  vesc_can/node_manager.py: _assign_node_id on a manager that *)
(* holds no id yet and has seen a given set of node ids on the bus.        *)
(***************************************************************************)
\* Sets of ids seen: none, the whole band, the band without one id, the
\* bottom of the band up to some id with and without the MAC-derived
\* candidate (90 for both hosts), and ids outside the band.
AssignActiveSets ==
    { {}, Band, {10, 90}, {10, 200} }
    \cup { Band \ {x} : x \in Band }
    \cup { NODE_ID_MIN..k : k \in Band }
    \cup { {90} \cup (NODE_ID_MIN..k) : k \in Band }

\* get_node_id() -> _assign_node_id() of a manager whose registry holds the
\* ids of `active`, each registered from a frame.
AssignCall ==
    /\ lastOp.op = "none"
    /\ \E m \in Managers, active \in AssignActiveSets :
         LET s == [NewManager(m) EXCEPT
                      !.active_nodes = active,
                      !.node_registry =
                          [i \in active |-> DictUpdate(NoEntry, FrameInfo, nodeNow)]]
         IN  /\ mgr' = [mgr EXCEPT ![m] = get_node_id(s, nodeNow)]
             /\ lastOp' = [Called("_assign_node_id", m) EXCEPT !.active = active]
    /\ UNCHANGED <<nodeNow, nodeOps, ifaceVars, farVars>>

\* The next experiment starts from fresh managers.
AssignReturn ==
    /\ lastOp.op = "_assign_node_id"
    /\ mgr' = [m \in Managers |-> NewManager(m)]
    /\ lastOp' = NoOp
    /\ UNCHANGED <<nodeNow, nodeOps, ifaceVars, farVars>>

AssignNext ==
    \/ AssignCall
    \/ AssignReturn

SpecAssign == Init /\ [][AssignNext]_vars

(***************************************************************************)
(* Properties of the pending-command tracker (SpecIface)                   *)
(***************************************************************************)
Tracked(id) == id \in PendingIds(pending)

\* No thread has a step to take at the present instant.
Quiescent == ~CleanupDue /\ ~RxDue /\ ~CallerDue

\* C1: a command registered with expect_response=True has its completion
\* callback invoked at most once in total, success and timeout together,
\* under every interleaving of the receive and the cleanup thread.
C1_CallbackAtMostOnce ==
    \A id \in CmdIds :
        calls[id].expect_response =>
            cbLog[id].success + cbLog[id].failure <= 1

\* A command timed out, callback invoked, and a frame was received as well.
C1_Witness ==
    \E id \in CmdIds :
        /\ calls[id].expect_response
        /\ cbLog[id].failure = 1
        /\ stats.messages_received > 0

\* C2: a command with a callback whose response frame is matched before its
\* first timeout has the success callback invoked exactly once, never the
\* failure callback, and is no longer tracked -- unless the receive thread
\* can still acquire the lock it is waiting for.
C2_AckedInvokesSuccessOnce ==
    \A id \in CmdIds :
        (calls[id].matched_in_time /\ calls[id].callback) =>
            \/ (cbLog[id].success = 1 /\ cbLog[id].failure = 0 /\ ~Tracked(id))
            \/ (rxPc = "blocked" /\ CanAcquire(lock, "rx"))

\* C3: a command with a callback that was sent with timeout T, while no
\* frame at all was received and disconnect() was not called, has the failure
\* callback invoked at most once, not before T and not after
\* T * (max_retries + 1) + the sweep interval, is then no longer tracked, and
\* has it invoked once that much time has passed.
C3_TimeoutFailsOnceInWindow ==
    \A id \in CmdIds :
        LET c == calls[id]
            latest == c.timeout * (MAX_RETRIES + 1) + SWEEP_TICKS
        IN  (/\ c.result = "returned" /\ c.expect_response /\ c.callback
             /\ ~c.matched /\ stats.messages_received = 0
             /\ id \notin atDisconnect /\ running) =>
                /\ cbLog[id].success = 0
                /\ cbLog[id].failure <= 1
                /\ cbLog[id].failure = 1 =>
                      /\ cbLog[id].failure_at - c.registered_at >= c.timeout
                      /\ cbLog[id].failure_at - c.registered_at <= latest
                      /\ ~Tracked(id)
                /\ (Quiescent /\ now - c.registered_at > latest) =>
                      cbLog[id].failure = 1

\* C4: once disconnect() has returned, no command is tracked and every
\* command with a callback that was pending when it was called has had its
\* failure callback invoked exactly once.
C4_DisconnectFailsPending ==
    (disconnected /\ callerPc = "idle") =>
        /\ pending = << >>
        /\ \A id \in atDisconnect :
              calls[id].callback => cbLog[id].failure = 1

\* C5: a send_command call for a node that no pending command is for is
\* never stuck: it never waits for command_lock while the lock is held by a
\* thread that itself waits for command_lock.
C5_SendNotBlockedByOtherNodes ==
    ~ (/\ callerPc \in {"reg_lock", "exc_lock"}
       /\ calls[cur].valid
       /\ \A i \in DOMAIN pending : pending[i].controller_id # calls[cur].controller_id
       /\ ~CanAcquire(lock, "caller")
       /\ lock = "rx" /\ rxPc = "blocked")

C8_FireAndForget ==
    \A id \in CmdIds :
        (calls[id].result # "none" /\ ~calls[id].expect_response) =>
            /\ ~Tracked(id)
            /\ cbLog[id].failure = 0
            /\ calls[id].result = "returned" =>
                  cbLog[id].success = (IF calls[id].callback THEN 1 ELSE 0)
            /\ calls[id].result # "returned" => cbLog[id].success = 0

\* A fire-and-forget command with a callback was sent and has returned.
C8_Witness ==
    \E id \in CmdIds :
        /\ ~calls[id].expect_response /\ calls[id].callback
        /\ calls[id].result = "returned"
        /\ cbLog[id].success = 1

(***************************************************************************)
(* Properties of node id assignment (SpecNode)                             *)
(***************************************************************************)
\* C9: when resolve_node_conflict has run on a detected conflict, the id the
\* manager then holds differs from the id it held before the resolution.
C9_ResolutionChangesId ==
    (lastOp.op \in {"_message_worker", "resolve_node_conflict"} /\ lastOp.detected) =>
        mgr[lastOp.m].my_node_id # lastOp.old_id

\* C10: when the two managers hold the same node id, one of them has the
\* other's hardware address registered under that id, and its message
\* worker has detected the conflict and resolved it, the two managers hold
\* two distinct ids, both in 64..127.
C10_CollisionEndsDistinct ==
    (/\ lastOp.op = "_message_worker" /\ lastOp.detected
     /\ lastOp.shared /\ lastOp.told) =>
        /\ mgr[1].my_node_id # mgr[2].my_node_id
        /\ mgr[1].my_node_id \in Band
        /\ mgr[2].my_node_id \in Band

\* C11: in every state reached by startup loads, assignments, registrations,
\* conflict resolutions, cleanups and force_node_id calls, get_node_id()
\* returns an id of the band 64..127, on both hosts.
C11_NodeIdInBand ==
    \A m \in Managers : get_node_id(mgr[m], nodeNow).my_node_id \in Band

\* A conflict resolution has ended with an id found by the linear scan.
C11_Witness ==
    /\ lastOp.op = "resolve_node_conflict"
    /\ mgr[lastOp.m].my_node_id # 0
    /\ mgr[lastOp.m].my_node_id # _generate_node_id_from_mac(mgr[lastOp.m])

\* The persisted record of manager state s carries the host's own identity.
RecordIsOwn(s) ==
    s.config_file.exists /\ s.config_file.mac_address = s.my_mac_address

C13_SendMessageResult ==
    /\ Len(can.send_queue) <= SEND_QUEUE_MAXSIZE
    /\ \A id \in SendIds :
         LET s == canObs.sends[id]
             places == {i \in DOMAIN can.send_queue : can.send_queue[i] = id}
         IN
         /\ s.enqueued <= 1
         /\ Cardinality(places) <= s.enqueued
         /\ (s.result = "true") <=> (s.enqueued = 1)
         /\ s.refused => s.result = "false"
         /\ (s.result \in {"true", "false"} /\ ~s.refused /\ ~s.had_room)
               => s.result = "false"
         /\ s.result = "false" => (s.refused \/ ~s.had_room)

\* One call has returned False after waiting on a full queue while the
\* transport was connected, and an earlier one has returned True.
C13_Witness ==
    \E id, id2 \in SendIds :
        /\ canObs.sends[id].result = "false" /\ ~canObs.sends[id].refused
        /\ canObs.sends[id2].result = "true"

\* C14: whenever the receive worker is not in the middle of queueing a
\* frame, the receive queue holds at most its capacity, in arrival order; a
\* frame that arrived and was not taken by the consumer is missing from it
\* only if at least capacity-many frames arrived after it; and
\* queue_overflows counts the arrivals that found the queue full.
C14_ReceiveQueueKeepsNewest ==
    can.wpc["rx"] \notin {"put", "evict", "reput"} =>
        /\ Len(can.receive_queue) <= RECEIVE_QUEUE_MAXSIZE
        /\ \A i, j \in DOMAIN can.receive_queue :
               i < j => can.receive_queue[i] < can.receive_queue[j]
        /\ \A k \in 1..can.messages_received :
               \/ \E i \in DOMAIN can.receive_queue : can.receive_queue[i] = k
               \/ k \in canObs.consumed
               \/ can.messages_received - k >= RECEIVE_QUEUE_MAXSIZE
        /\ can.queue_overflows = canObs.full_arrivals

\* C15: from the return of disconnect() until the next connect() the bus
\* handle is None, is_connected is False and no worker thread is running.
C15_DisconnectStopsWorkers ==
    canObs.after_disconnect =>
        /\ can.bus = "none"
        /\ ~can.is_connected
        /\ \A t \in Workers : ~Alive(t)

\* C16: a worker makes at most max_consecutive_errors reconnect attempts
\* that fail one after the other.
C16_ReconnectBounded ==
    \A t \in Workers : canObs.failed_attempts[t] <= max_consecutive_errors

(***************************************************************************)
(* Properties of the telemetry cache and the service (SpecService)         *)
(***************************************************************************)
\* The fields of status category k in the service's cache, and the key of
\* category k in the core interface's live data.
CategoryFields(k) ==
    CASE k = CAN_PACKET_STATUS -> {"rpm", "current", "duty"}
      [] k = CAN_PACKET_STATUS_2 -> {"amp_hours", "amp_hours_charged"}
      [] k = CAN_PACKET_STATUS_3 -> {"watt_hours", "watt_hours_charged"}
      [] k = CAN_PACKET_STATUS_4 -> {"temp_fet", "temp_motor", "current_in", "pid_pos"}
      [] k = CAN_PACKET_STATUS_5 -> {"tachometer", "v_in", "reserved"}
      [] k = CAN_PACKET_STATUS_6 -> {"adc1", "adc2", "adc3", "ppm"}

CategoryType(k) ==
    CASE k = CAN_PACKET_STATUS -> "status_1"
      [] k = CAN_PACKET_STATUS_2 -> "status_2"
      [] k = CAN_PACKET_STATUS_3 -> "status_3"
      [] k = CAN_PACKET_STATUS_4 -> "status_4"
      [] k = CAN_PACKET_STATUS_5 -> "status_5"
      [] k = CAN_PACKET_STATUS_6 -> "status_6"

C18_FreshnessPerCategory ==
    svcObs.cleaned =>
        \A n \in Controllers, k \in STATUS_COMMANDS :
            LET t == svcObs.cat_time[n][k]
                tc == svcObs.core_cat_time[n][k]
                cached == /\ n \in DOMAIN svc.status_cache
                          /\ CategoryFields(k) \subseteq DOMAIN svc.status_cache[n]
                live == /\ is_connected(live_data, n, svcNow)
                        /\ CategoryType(k) \in DOMAIN live_data[n].status
            IN  /\ (t >= 0 /\ svcNow - t > status_cache_timeout) => ~cached
                /\ (t >= 0 /\ svcNow - t < status_cache_timeout) => cached
                /\ (tc >= 0 /\ svcNow - tc > CONNECTED_WINDOW) => ~live
                /\ (tc >= 0 /\ svcNow - tc < CONNECTED_WINDOW) => live

\* C19: a node's status history holds the last CAN_STATUS_MSGS_TO_STORE
\* entries that arrived for it, in arrival order, and
\* get_status_history(node, n) has returned the last n of them, or all of
\* them when there are fewer than n.
C19_HistoryKeepsNewest ==
    /\ \A n \in Controllers :
         LET all == svcObs.arrived[n]
             kept == IF n \in DOMAIN svc.status_history THEN svc.status_history[n] ELSE << >>
             first == IF Len(all) > CAN_STATUS_MSGS_TO_STORE
                      THEN Len(all) - CAN_STATUS_MSGS_TO_STORE + 1 ELSE 1
         IN  /\ Len(kept) <= CAN_STATUS_MSGS_TO_STORE
             /\ kept = SubSeq(all, first, Len(all))
    /\ svcObs.last.op = "get_status_history" =>
         LET n == svcObs.last.node_id
             kept == IF n \in DOMAIN svc.status_history THEN svc.status_history[n] ELSE << >>
             reply == svcObs.last.reply
             first == IF Len(kept) > svcObs.last.count
                      THEN Len(kept) - svcObs.last.count + 1 ELSE 1
         IN  /\ Len(reply) <= svcObs.last.count
             /\ reply = SubSeq(kept, first, Len(kept))

C21_UartResponseFromTarget ==
    svc.uart_call.pc = "returned" =>
        /\ svc.uart_call.result # << >> =>
               svc.uart_call.result[1].node_id = svc.uart_call.node_id
        /\ ~svcObs.uart_from_target => svc.uart_call.result = << >>

(***************************************************************************)
(* Properties of the frame codecs (SpecCodec)                              *)
(***************************************************************************)

\* C22: a set-duty, set-current or set-brake-current encoder of either codec
\* that was called with a value outside the bounds of its kind (|duty| > 1.0,
\* current outside -100..100 A, brake current outside 0..100 A) has raised
\* and returned no frame.
C22_EncodersRejectOutOfBounds ==
    (codec.op = "encode" /\ OutOfRange(codec.node_id, codec.kind, codec.value))
        => ~codec.out.ok

\* C23: for every command and node id in 0..255, extracting the command and
\* the node id from the arbitration id built from them gives them back; and
\* the arbitration id of every frame an encoder produced extracts to the
\* encoder's command kind and its target node.
C23_ExtractInvertsConstruction ==
    /\ codec.op = "extract" => codec.out.data = <<codec.command, codec.node_id>>
    /\ (codec.op = "encode" /\ codec.out.ok) =>
           /\ extract_controller_id(codec.out.can_id) = codec.node_id
           /\ extract_packet_type(codec.out.can_id) =
                  (CASE codec.kind = "duty" -> CAN_PACKET_SET_DUTY
                     [] codec.kind = "current" -> CAN_PACKET_SET_CURRENT
                     [] codec.kind = "brake" -> CAN_PACKET_SET_CURRENT_BRAKE)

\* An arbitration id with a command and a node id that both use their top bit
\* has been taken apart by the core parser.
C23_Witness ==
    /\ codec.op = "extract" /\ codec.lib = "core"
    /\ codec.command >= 128 /\ codec.node_id >= 128
    /\ codec.out.data = <<codec.command, codec.node_id>>

(***************************************************************************)
(* Properties of decoding (SpecIface, SpecCodec)                           *)
(***************************************************************************)

\* C24: a status frame whose payload is too short is a decode error of that
\* frame only: the receive thread of the core interface that handles it is
\* never blocked on it, so that it goes on to the next frame.
C24_ShortFrameConfined ==
    (/\ rxMsg # NoFrame
     /\ extract_packet_type(rxMsg.can_id) \in STATUS_COMMANDS
     /\ Len(rxMsg.data) < 8)
        => rxPc # "blocked"

\* C25: a frame that is decoded again, by the same parser, gives the record
\* it gave before, whatever was decoded and however much time passed in
\* between.
C25_DecodeDeterministic ==
    (/\ codec.op = "decode" /\ codec.prev # << >>
     /\ codec.prev[1].lib = codec.lib
     /\ codec.prev[1].frame = codec.frame)
        => codec.prev[1].out = codec.out

\* The CRC16 with polynomial 0x1021 and initial value 0, computed bit by bit:
\* each byte is brought into the high byte of the register, which is then
\* shifted left eight times, the polynomial being applied whenever a 1 is
\* shifted out.
RECURSIVE CrcShift(_, _)
CrcShift(reg, n) ==
    IF n = 0 THEN reg
    ELSE CrcShift(IF reg >= 32768 THEN BitXor((reg * 2) % 65536, 4129)
                  ELSE (reg * 2) % 65536, n - 1)

RECURSIVE CrcCcitt(_, _, _)
CrcCcitt(bytes, n, reg) ==
    IF n = 0 THEN reg
    ELSE IF n = 1 THEN CrcShift(BitXor(reg, bytes[1] * 256), 8)
    ELSE LET half == n \div 2
             left == CrcCcitt(SubSeq(bytes, 1, half), half, reg)
         IN  IF left < 0 THEN left
             ELSE CrcCcitt(SubSeq(bytes, half + 1, n), n - half, left)

\* C26: a packet built by create_uart_packet parses back to the command and
\* the data it was built from; it starts with 0x02 and a one-byte length if
\* command and data are at most 255 bytes and with 0x03 and a two-byte
\* big-endian length otherwise, is followed by the command and the data,
\* then by the big-endian CRC16 (polynomial 0x1021) of the length and
\* payload bytes, and ends with 0x03.
C26_UartRoundTrip ==
    codec.op = "uart" =>
        LET data == codec.frame.data
            payload == <<codec.command>> \o data
            n == Len(payload)
            header == IF n <= 255 THEN <<2, n>> ELSE <<3, n \div 256, n % 256>>
            crc == CrcCcitt(Tail(header) \o payload, Len(header) - 1 + n, 0)
        IN  /\ codec.out.parsed = [none |-> FALSE, command |-> codec.command,
                                   data |-> data]
            /\ codec.out.packet = header \o payload \o <<crc \div 256, crc % 256, 3>>

\* A packet with more than 255 bytes of command and data has been built and
\* parsed back.
C26_Witness ==
    /\ codec.op = "uart"
    /\ Len(codec.frame.data) = 255
    /\ codec.out.packet[1] = 3
    /\ codec.out.parsed.data = codec.frame.data

(***************************************************************************)
(* Properties of the brake ramp (SpecApi)                                  *)
(***************************************************************************)
LevelLeq(a, b) == a.num * b.den <= b.num * a.den

LevelIs(a, amount) == a.num = amount * a.den

\* C27: a set_brake_current(current_a, ramp_time_s) call with valid arguments
\* whose sends all succeed issues ramp_up_steps non-decreasing levels that end
\* exactly at current_a, then ten non-increasing levels, then 0.0 as the last
\* write; every level issued lies in [0, current_a], and no write is
\* registered as a pending command.
C27_BrakeRampShape ==
    LET s == api.issued
        n == api.ramp_up_steps
    IN  /\ \A k \in 1..Len(s) :
             /\ LevelLeq([num |-> 0, den |-> 1], s[k])
             /\ LevelLeq(s[k], [num |-> api.current_a, den |-> 1])
        /\ api.calls > 0 => pending = << >>
        /\ api.result = "True" =>
             /\ Len(s) = n + ramp_down_steps + 1
             /\ \A k \in 1..(n - 1) : LevelLeq(s[k], s[k + 1])
             /\ LevelIs(s[n], api.current_a)
             /\ \A k \in n..(n + ramp_down_steps - 1) : LevelLeq(s[k + 1], s[k])
             /\ LevelIs(s[Len(s)], 0)

\* A call for 10 A over 3.14 s has returned True after 31 rising levels, ten
\* falling levels and the final write.
C27_Witness ==
    /\ api.result = "True"
    /\ api.current_a = 100
    /\ api.ramp_up_steps = 31
    /\ Len(api.issued) = 42
    /\ ~LevelIs(api.issued[1], 0)
    /\ LevelIs(api.issued[31], 100)
    /\ LevelIs(api.issued[32], 90)

(***************************************************************************)
(* Properties of retrying and of response matching (SpecIface)             *)
(***************************************************************************)
\* C28: when the timeout sweep retries a pending entry (its time is up and
\* retry_count is below max_retries), the command frame is sent again on the
\* bus: an entry that has been retried r times has had bus.send called r + 1
\* times with its frame; the entry stays pending and no callback is invoked.
C28_RetrySendsAgain ==
    \A i \in DOMAIN pending :
        LET cmd == pending[i]
        IN  cmd.retry_count >= 1 =>
                /\ busCalls[cmd.command_id] = cmd.retry_count + 1
                /\ cbLog[cmd.command_id].success + cbLog[cmd.command_id].failure = 0

\* C29: the receive thread never waits for command_lock while holding it
\* itself: _check_command_response returns and releases the lock, so the
\* cleanup sweep and send_command can still acquire it.
C29_ReceiveThreadNeverStuck ==
    ~ (lock = "rx" /\ rxPc = "blocked" /\ ~CanAcquire(lock, "rx"))

\* C30: when a response frame from node N has been matched to a pending
\* entry, that entry (the earliest registered for N) is resolved: it is no
\* longer pending and commands_successful counts one resolution per matched
\* command.
C30_FirstMatchResolved ==
    \A id \in CmdIds :
        calls[id].matched =>
            /\ id \notin PendingIds(pending)
            /\ stats.commands_successful
                   = Cardinality({ j \in CmdIds : calls[j].matched })

\* C31: every inbound frame from the target node of a pending command,
\* status telemetry included, resolves that command: no command is still
\* pending once a telemetry frame from its target node has been stored
\* later than the command was registered.
C31_AnyFrameResolves ==
    \A i \in DOMAIN pending :
        LET cmd == pending[i]
            node == cmd.controller_id
        IN  ~ (/\ node \in DOMAIN live_data
               /\ live_data[node].last_update
                      > calls[cmd.command_id].registered_at)

(***************************************************************************)
(* Properties of collision detection and id assignment (SpecNode)          *)
(***************************************************************************)
\* C32: after the service has processed a received frame whose source node
\* id is the local node id (a frame of another device: the bus does not
\* deliver a host its own frames), detect_node_conflict() returns True.
C32_ForeignFrameFlagsCollision ==
    (/\ lastOp.op = "_handle_can_message"
     /\ mgr[lastOp.m].my_node_id # 0
     /\ lastOp.sender = mgr[lastOp.m].my_node_id) =>
        ConflictDetected(mgr[lastOp.m])

C34_ErrorCountingAndReconnect ==
    [][ /\ (\/ can'.messages_received > can.messages_received
            \/ can'.messages_sent > can.messages_sent) =>
               can'.consecutive_errors = 0
        /\ \A t \in Workers :
              /\ (/\ can'.consecutive_errors > can.consecutive_errors
                  /\ can'.consecutive_errors >= max_consecutive_errors
                  /\ Alive(t) /\ can'.wpc[t] # can.wpc[t]) =>
                     can'.wpc[t] = "reconnect"
              /\ (/\ can'.consecutive_errors > can.consecutive_errors
                  /\ can'.consecutive_errors < max_consecutive_errors
                  /\ Alive(t)) =>
                     can'.wpc[t] \notin {"reconnect"} \/ can.wpc[t] = "reconnect"
              /\ (can.wpc[t] = "reconnect" /\ can'.wpc[t] # "reconnect"
                  /\ can.is_running) =>
                     /\ can'.wpc[t] = "reconnect_shutdown"
                     /\ can'.bus = "none" /\ ~can'.is_connected
              /\ (can'.wpc[t] = "reconnect_sleep" /\ can.wpc[t] # "reconnect_sleep") =>
                     can.wpc[t] = "reconnect_shutdown"
              /\ (can'.wpc[t] = "reconnect_open" /\ can.wpc[t] # "reconnect_open") =>
                     can.wpc[t] = "reconnect_sleep" /\ can.is_running
              /\ (/\ can.wpc[t] = "reconnect_open" /\ can'.wpc[t] # "reconnect_open"
                  /\ canObs'.open_failures = canObs.open_failures) =>
                     /\ can'.bus = "open" /\ can'.is_connected
                     /\ can'.consecutive_errors = 0
                     /\ can'.wpc[t] = "loop"
      ]_vars

\* After a reconnect attempt that failed, the transport is connected again,
\* running, with the counter at 0, and frames have been received and sent.
C34_Witness ==
    /\ canObs.open_failures >= 1
    /\ can.is_running /\ can.is_connected /\ can.bus = "open"
    /\ can.consecutive_errors = 0
    /\ can.messages_received >= 1
    /\ can.messages_sent >= 1
    /\ canObs.last # "connect"

\* C39: while the transport keeps running, the send worker never discards a
\* frame that send_message accepted (returned True for) without passing it
\* to bus.send or counting it in send_errors, also while a reconnect has
\* set the bus to None.
C39_AcceptedFrameNotDiscarded ==
    \A id \in SendIds :
        (canObs.sends[id].result = "true" /\ can.is_running) =>
            id \notin canObs.tx_dropped

\* C40: at most one worker is in _attempt_reconnect at any time, and at most
\* one bus handle is open (opened and not shut down) at any time.
C40_OneReconnectOneHandle ==
    /\ Cardinality({ t \in Workers :
            can.wpc[t] \in {"reconnect_shutdown", "reconnect_sleep",
                            "reconnect_open"} }) <= 1
    /\ canObs.handles <= 1

(***************************************************************************)
(* Properties of UART fragmentation (SpecUart)                             *)
(***************************************************************************)
\* C35: for a UART packet of length L, send_uart_request hands the transport
\* ceil(L/8) fill-buffer frames for the target node whose payloads are the
\* consecutive 8-byte slices of the packet, in order, and then exactly one
\* process-buffer frame for the same node; once the call has returned, with
\* a response, after a timeout or after a failure, its response queue is no
\* longer in uart_responses.
C35_UartFragmentation ==
    LET c == svc.uart_call
        L == Len(c.uart_packet)
        n == IF L % 8 = 0 THEN L \div 8 ELSE (L \div 8) + 1
        handed == SubSeq(svc.outbox, c.first + 1, Len(svc.outbox))
    IN  /\ (c.pc \in {"waiting", "returned"} /\ ~c.failed) =>
               /\ Len(handed) = n + 1
               /\ \A k \in 1..n :
                     /\ handed[k].can_id % 256 = c.node_id
                     /\ handed[k].can_id \div 256
                            \in {FILL_RX_BUFFER, FILL_RX_BUFFER_LONG}
                     /\ Len(handed[k].data) = (IF k < n THEN 8 ELSE L - 8 * (n - 1))
                     /\ \A j \in 1..Len(handed[k].data) :
                            handed[k].data[j] = c.uart_packet[8 * (k - 1) + j]
               /\ handed[n + 1].can_id = PROCESS_RX_BUFFER * 256 + c.node_id
               /\ handed[n + 1].data = << >>
        /\ c.pc = "returned" => c.request_id \notin DOMAIN svc.uart_responses

\* A request whose packet of 17 bytes went out in three frames and a
\* process frame has returned with a response, and its queue is gone.
C35_Witness ==
    /\ svc.uart_call.pc = "returned"
    /\ ~svc.uart_call.failed
    /\ Len(svc.uart_call.uart_packet) = 17
    /\ Len(svc.outbox) - svc.uart_call.first = 4
    /\ Len(svc.outbox[svc.uart_call.first + 3].data) = 1
    /\ svc.uart_call.result # << >>
    /\ svc.uart_responses = << >>

\* C36: frames reach the caches in arrival order: for every node N and
\* category k of which a frame has been decoded since N's entry was last
\* evicted, the cached fields of category k are those of the most recently
\* received category-k frame from N; in the live data of the core interface
\* the entry of (N, k) is the decoded data of the most recent such frame.
C36_CacheHoldsNewestFrame ==
    \A n \in Controllers, k \in STATUS_COMMANDS :
        /\ svcObs.latest[n][k] # << >> =>
              /\ n \in DOMAIN svc.status_cache
              /\ \A key \in CategoryFields(k) :
                    /\ key \in DOMAIN svc.status_cache[n]
                    /\ svc.status_cache[n][key] = svcObs.latest[n][k][key]
        /\ svcObs.core_latest[n][k] # << >> =>
              /\ n \in DOMAIN live_data
              /\ CategoryType(k) \in DOMAIN live_data[n].status
              /\ live_data[n].status[CategoryType(k)] = svcObs.core_latest[n][k]

\* Two status 1 frames of one node with different values have been cached
\* one after the other, with a frame of another category of the same node
\* cached as well.
C36_Witness ==
    /\ Len(svcObs.arrived[74]) >= 3
    /\ \E i, j \in 1..Len(svcObs.arrived[74]) :
          /\ i < j
          /\ svcObs.arrived[74][i].command = CAN_PACKET_STATUS
          /\ svcObs.arrived[74][j].command = CAN_PACKET_STATUS
          /\ svcObs.arrived[74][i].data.rpm # svcObs.arrived[74][j].data.rpm
    /\ \E i \in 1..Len(svcObs.arrived[74]) :
          svcObs.arrived[74][i].command # CAN_PACKET_STATUS
    /\ svcObs.latest[74][CAN_PACKET_STATUS] # << >>

C38_NoCallbackForFailedSend ==
    \A id \in 1..MaxCmds :
        (calls[id].result = "raised" /\ calls[id].send_failed /\ calls[id].expect_response)
            => (cbLog[id].success = 0 /\ cbLog[id].failure = 0)

====
